---- MODULE Spec2Model ----
(***************************************************************************)
(* Uplink client (onchainfi/uplink, JavaScript SDK): one pay() call of     *)
(* src/javascript/src/client.ts (current Uplink class, lines 29-610) with  *)
(* the signers of src/unnamed/part_004 (signer.ts, lines 323-635).         *)
(*                                                                         *)
(* Money.  A JS number holding dollars is modelled by an integer count of  *)
(* 1e-7 USD ("tenth-micros"), so that amounts with seven decimals exist    *)
(* and toFixed(6) / Math.floor(x * 1_000_000) differ where they differ in  *)
(* the code.  A toFixed(6) string is modelled by its integer count of      *)
(* atomic units (1e-6 USD).  A fee before rounding is a count of 1e-10 USD *)
(* (gross * feePercent / 100 with feePercent in tenths of a percent).      *)
(*                                                                         *)
(* Strings.  An amount string is the record                                *)
(*   [dollar, body, neg, mag, label]:  ["$"] ["-"] digits|junk [" USDC"]   *)
(* parseFloat and _parseAmount are computed on that structure.             *)
(*                                                                         *)
(* Specifications.  Spec: one pay() call.  FeeSpec: calculateFees and the  *)
(* sufficiency check on every preparation result.  NormalizerSpec: amount  *)
(* normalization and network resolution on every shape of amount and       *)
(* address.  ConstructorSpec: the constructor, then one pay() call.        *)
(* RetrySpec: two pay() calls with the same parameters.  LiveSpec: Spec    *)
(* with every enabled step taken in the end.  ConcurrentSpec: two pay()    *)
(* calls on one client, interleaved at their awaits.  ServerSpec,          *)
(* SchedulerSpec and BatchSpec: the programs of                            *)
(* src/javascript/examples/server-side that call pay(): the Express        *)
(* server, the payment scheduler and the batch processor.                  *)
(***************************************************************************)
EXTENDS Integers, Sequences, FiniteSets, TLC

\* Largest ranked-facilitator list the aggregator returns in the model.
MaxFacilitators == 3

VARIABLES
    config,             \* this.config (privateKey configured?, network)
    params,             \* the caller's PaymentParams
    pc,                 \* position of the pay() call
    prepareRequests,    \* bodies POSTed to /v1/uplink/prepare-payment
    prepareData,        \* PreparePaymentResponse (data.data)
    calculatedFees,     \* CalculatedFees of calculateFees
    rankingRequests,    \* number of GET /v1/facilitators/ranked calls
    facilitators,       \* data.data.facilitators of the ranking response
    fIdx,               \* position of the for-of loop over facilitators
    signerCalls,        \* arguments of every signPayment invocation
    destAtaInfo,        \* what getAccountInfo(destinationAta) answers
    facilitatorHeaders, \* the FacilitatorHeader[] pay() iterates
    i,                  \* loop index of the failover loop (1-based)
    lastError,          \* lastError of the failover loop
    inFlight,           \* settlement requests sent and not yet completed
    payRequests,        \* bodies POSTed to /v1/uplink/pay, in order
    lastResponse,       \* the last settlement response received
    settled,            \* aggregator side: the requests it settled
    result,             \* what pay() returned or threw
    history,            \* results of the caller's earlier pay() calls
    suspended,          \* a second pay() call on the client, at an await
    payments,           \* production server: the Map payments, by payment id
    paymentsByOrder,    \* production server: the Map paymentsByOrder
    requests,           \* production server: the POST requests received
    schedules,          \* payment scheduler: the Map schedules
    ticks,              \* payment scheduler: the runs of the timer callback
    now,                \* payment scheduler: the clock, in ms
    batchPayments,      \* batch processor: batchPayments of processBatch
    batch,              \* batch processor: position of processBatch
    uplinkCalls         \* the uplink.pay() calls an example program made

vars == <<config, params, pc, prepareRequests, prepareData, calculatedFees,
          rankingRequests, facilitators, fIdx, signerCalls, destAtaInfo,
          facilitatorHeaders, i, lastError, inFlight, payRequests,
          lastResponse, settled, result, history, suspended,
          payments, paymentsByOrder, requests, schedules, ticks, now,
          batchPayments, batch, uplinkCalls>>

\* The state of the example programs of examples/server-side.
examples == <<payments, paymentsByOrder, requests, schedules, ticks, now,
              batchPayments, batch, uplinkCalls>>

\* processBatch is not running.
NoBatch == [phase |-> "none", chunk |-> 0, retry |-> 0, failedPayments |-> <<>>,
            result |-> [total |-> 0, successful |-> 0, failed |-> 0]]

\* No example program is running.
ExamplesIdle ==
    /\ payments = <<>>
    /\ paymentsByOrder = <<>>
    /\ requests = <<>>
    /\ schedules = <<>>
    /\ ticks = <<>>
    /\ now = 0
    /\ batchPayments = <<>>
    /\ batch = NoBatch
    /\ uplinkCalls = <<>>

----------------------------------------------------------------------------
\* JS numbers: NaN or a finite value.
NaN == [nan |-> TRUE, v |-> 0]
Num(x) == [nan |-> FALSE, v |-> x]

\* Amount strings.
AmountString(dollar, neg, mag, label) ==
    [dollar |-> dollar, body |-> "num", neg |-> neg, mag |-> mag, label |-> label]
JunkString == [dollar |-> FALSE, body |-> "junk", neg |-> FALSE, mag |-> 0, label |-> FALSE]

\* parseFloat(s): a leading "$" or a non-numeric body gives NaN; text after
\* the number (the " USDC" label) is ignored.
parseFloat(s) ==
    IF s.dollar \/ s.body = "junk" THEN NaN
    ELSE Num(IF s.neg THEN 0 - s.mag ELSE s.mag)

\* Mutant: the "$" is left in place.
StripDecoration_keepDollar(s) == [s EXCEPT !.label = FALSE]

\* amount.trim().replace(/[$]/g, '').replace(/USDC/gi, '').trim()
StripDecoration(s) == [s EXCEPT !.dollar = FALSE, !.label = FALSE]

\* value.toFixed(2): the nearest multiple of one cent, as a string.
toFixed2(v) ==
    LET m == IF v < 0 THEN 0 - v ELSE v
    IN  AmountString(FALSE, v < 0, ((m + 50000) \div 100000) * 100000, FALSE)

\* Uplink._parseAmount
parseAmount(amount) ==
    LET value == parseFloat(StripDecoration(amount))
    IN  IF value.nan
        THEN [ok |-> FALSE, value |-> JunkString]
        ELSE [ok |-> TRUE, value |-> toFixed2(value.v)]

\* x.toFixed(6) of a non-negative number of tenth-micros, in atomic units.
toFixed6(v) == (v + 5) \div 10

\* Amounts whose IEEE-754 product parseFloat(s) * 1_000_000 lies just below
\* the decimal product: 2.01 * 1_000_000 = 2009999.9999999998.
BinaryShortfall == {20100000}

\* BigInt(Math.floor(parseFloat(amount) * 1_000_000)), in atomic units.
atomicUnits(amount) ==
    LET f == parseFloat(amount)
    IN  (f.v \div 10) - (IF f.v \in BinaryShortfall THEN 1 ELSE 0)

----------------------------------------------------------------------------
\* Errors.  UplinkError subclasses carry their class name; a raw error (a
\* fetch rejection, a timeout DOMException, a JSON SyntaxError) carries the
\* name the runtime gives it.
NoError == [type |-> "none", cause |-> "none", attempt |-> 0]
Error(type, cause, attempt) == [type |-> type, cause |-> cause, attempt |-> attempt]
UplinkErrors == {"ValidationError", "AuthenticationError", "PaymentError",
                 "NetworkError", "SigningError"}
IsUplinkError(e) == e.type \in UplinkErrors

\* Signed payment headers (the decoded x402 envelope).  `fresh` stands for
\* what makes two signed headers differ byte for byte: the random nonce
\* (EVM), the recent blockhash and the signature over it (Solana).
\* `network` is the network field of the envelope, `chain` the chain the
\* signature inside is for.
NoHeader == [kind |-> "none", network |-> "", chain |-> "", to |-> "", value |-> 0,
             payerKey |-> <<>>, instructions |-> <<>>, crossChain |-> FALSE,
             fresh |-> 0]
ProvidedHeader == [kind |-> "provided", network |-> "", chain |-> "", to |-> "",
                   value |-> 0, payerKey |-> <<>>, instructions |-> <<>>,
                   crossChain |-> FALSE, fresh |-> 0]

PAYAI_FEE_PAYER == <<"PayAI">>

NoFees == [grossAmount |-> 0, processingFee |-> 0, processingFeePercent |-> 0,
           ataFee |-> 0, totalFees |-> 0, netAmount |-> 0,
           minimumFeeApplied |-> FALSE]

\* Mutant: the two percentages exchanged.
FeePercent_swapped(pd) ==
    IF pd.isCrossChain THEN pd.feeConfig.samechainFeePercent
    ELSE pd.feeConfig.crosschainFeePercent

\* The percentage calculateFees applies: chosen by prepareData.isCrossChain.
FeePercent(pd) ==
    IF pd.isCrossChain THEN pd.feeConfig.crosschainFeePercent
    ELSE pd.feeConfig.samechainFeePercent

\* Mutant: the minimum is applied to same-chain payments too.
MinimumFeeApplies_anyChain(pd, percentFee) ==
    /\ pd.feeConfig.minimumCrosschainFee > 0
    /\ percentFee < pd.feeConfig.minimumCrosschainFee

\* The clamp of calculateFees: cross-chain, a positive minimum, and the
\* percentage fee below it.
MinimumFeeApplies(pd, percentFee) ==
    /\ pd.isCrossChain
    /\ pd.feeConfig.minimumCrosschainFee > 0
    /\ percentFee < pd.feeConfig.minimumCrosschainFee

\* ataCheck.needsCreation ? feeConfig.ataCreationFee : 0
AtaFee(pd) ==
    IF pd.ataCheck.needsCreation THEN pd.feeConfig.ataCreationFee ELSE 0

\* Uplink.calculateFees.  feePercent is in tenths of a percent, the
\* unrounded processing fee and minimumCrosschainFee in 1e-10 USD,
\* ataCreationFee and every toFixed(6) result in atomic units.
calculateFees(pd, grossAmount) ==
    LET grossAmountNum == parseFloat(grossAmount)
        feeConfig == pd.feeConfig
        feePercent == FeePercent(pd)
        percentFee == grossAmountNum.v * feePercent
        minimumFeeApplied == MinimumFeeApplies(pd, percentFee)
        processingFee == IF minimumFeeApplied THEN feeConfig.minimumCrosschainFee
                         ELSE percentFee
        ataFee == AtaFee(pd)
        \* gross - processingFee, rounded to atomic units: gross = 10 q + r
        q == grossAmountNum.v \div 10
        r == grossAmountNum.v % 10
        net == q + ((r * 1000 - processingFee + 5000) \div 10000) - ataFee
    IN  IF grossAmountNum.nan \/ grossAmountNum.v <= 0
        THEN [ok |-> FALSE, fees |-> NoFees]
        ELSE [ok |-> TRUE,
              fees |-> [grossAmount |-> toFixed6(grossAmountNum.v),
                        processingFee |-> (processingFee + 5000) \div 10000,
                        processingFeePercent |-> feePercent,
                        ataFee |-> ataFee,
                        totalFees |-> ((processingFee + 5000) \div 10000) + ataFee,
                        netAmount |-> IF net < 0 THEN 0 ELSE net,
                        minimumFeeApplied |-> minimumFeeApplied]]

\* Mutant: the sufficiency comparison reversed.
InsufficientAmount_reversed(fees) == fees.totalFees < fees.grossAmount

\* Step 3 of pay(): parseFloat(grossAmount) < parseFloat(totalFees)
InsufficientAmount(fees) == fees.grossAmount < fees.totalFees

----------------------------------------------------------------------------
\* Inputs of the model.

\* "0.20", "2.01", "1.0000007", "10 USDC", "$10", "0", "-5", "abc"
Amounts ==
    { AmountString(FALSE, FALSE, 2000000, FALSE),
      AmountString(FALSE, FALSE, 20100000, FALSE),
      AmountString(FALSE, FALSE, 10000007, FALSE),
      AmountString(FALSE, FALSE, 100000000, TRUE),
      AmountString(TRUE, FALSE, 100000000, FALSE),
      AmountString(FALSE, FALSE, 0, FALSE),
      AmountString(FALSE, TRUE, 50000000, FALSE),
      JunkString }

Networks == {"base", "solana"}

\* PaymentParams.sourceNetwork is any string: the client's networks and
\* another EVM network.
SourceNetworks == Networks \cup {"ethereum"}

\* The fee snapshot the aggregator serves: 0.1 % same-chain and cross-chain,
\* $0.01 cross-chain minimum, $0.40 account creation.
FeeConfig == [tier |-> "STANDARD", samechainFeePercent |-> 1,
              crosschainFeePercent |-> 1, minimumCrosschainFee |-> 100000000,
              ataCreationFee |-> 400000]

NoPrepareData ==
    [feeConfig |-> FeeConfig, ataCheck |-> [needsCreation |-> FALSE],
     signToAddress |-> "", bridgeOrderId |-> "", sourceNetwork |-> "",
     destinationNetwork |-> "", isCrossChain |-> FALSE]

\* What a successful prepare-payment answers to a request body: the resolved
\* networks are those of the request; the signing target is the intermediate
\* wallet (same-chain) or the bridge deposit address with its order id.
PrepareAnswers(body) ==
    { [feeConfig |-> FeeConfig,
       ataCheck |-> [needsCreation |-> nc],
       signToAddress |-> IF body.sourceNetwork # body.destinationNetwork
                         THEN "bridgeDeposit" ELSE "intermediateWallet",
       bridgeOrderId |-> IF body.sourceNetwork # body.destinationNetwork
                         THEN "order" ELSE "",
       sourceNetwork |-> body.sourceNetwork,
       destinationNetwork |-> body.destinationNetwork,
       isCrossChain |-> body.sourceNetwork # body.destinationNetwork]
      : nc \in BOOLEAN }

\* Ranked facilitator k, with or without a Solana fee payer.
Facilitator(k, hasFeePayer) ==
    [facilitatorName |-> <<"facilitator", k>>, facilitatorId |-> <<"id", k>>,
     solanaFeePayer |-> IF hasFeePayer THEN <<"feePayer", k>> ELSE <<>>]

RankedLists ==
    UNION { { [k \in 1..n |-> Facilitator(k, has[k])] : has \in [1..n -> BOOLEAN] }
            : n \in 0..MaxFacilitators }

\* Destination addresses, by the features _detectNetworkFromAddress reads.
Address(name, prefix0x, length, base58, dotEth) ==
    [name |-> name, prefix0x |-> prefix0x, length |-> length,
     base58 |-> base58, dotEth |-> dotEth]

Addresses == { Address("0xRecipient", TRUE, 42, FALSE, FALSE),
               Address("SolRecipient", FALSE, 44, TRUE, FALSE) }

\* Mutant: the length of a 0x address is not checked.
detectNetworkFromAddress_anyLength(cfg, addr) ==
    IF addr.prefix0x THEN "base"
    ELSE IF addr.length >= 32 /\ addr.length <= 44 /\ addr.base58 THEN "solana"
    ELSE IF addr.dotEth THEN "base"
    ELSE cfg.network

\* Uplink._detectNetworkFromAddress
detectNetworkFromAddress(cfg, addr) ==
    IF addr.prefix0x /\ addr.length = 42 THEN "base"
    ELSE IF addr.length >= 32 /\ addr.length <= 44 /\ addr.base58 THEN "solana"
    ELSE IF addr.dotEth THEN "base"
    ELSE cfg.network

\* The constructor: one signer, chosen by the configured network.
HasSolanaSigner(cfg) == cfg.privateKey /\ cfg.network = "solana"
HasEVMSigner(cfg) == cfg.privateKey /\ cfg.network # "solana"

----------------------------------------------------------------------------
\* No other pay() call is pending on the client.
NoCall == <<>>

\* PaymentParams without metadata.
NoMetadata == <<>>

Init ==
    /\ config \in [privateKey : BOOLEAN, network : Networks]
    /\ params \in [to : Addresses, amount : Amounts,
                   paymentHeader : {NoHeader, ProvidedHeader},
                   sourceNetwork : {""} \cup SourceNetworks,
                   destinationNetwork : {""},
                   idempotencyKey : {"", "key"},
                   priority : {"", "speed"},
                   metadata : {NoMetadata, <<"orderId">>}]
    /\ params.sourceNetwork # config.network
    /\ params.priority = "" <=> params.metadata = NoMetadata
    /\ pc = "Idle"
    /\ prepareRequests = <<>>
    /\ prepareData = NoPrepareData
    /\ calculatedFees = NoFees
    /\ rankingRequests = 0
    /\ facilitators = <<>>
    /\ fIdx = 0
    /\ signerCalls = <<>>
    /\ destAtaInfo = "unknown"
    /\ facilitatorHeaders = <<>>
    /\ i = 0
    /\ lastError = NoError
    /\ inFlight = 0
    /\ payRequests = <<>>
    /\ lastResponse = [kind |-> "none", txHash |-> <<>>]
    /\ settled = <<>>
    /\ result = [kind |-> "pending", txHash |-> <<>>, error |-> NoError]
    /\ history = <<>>
    /\ suspended = NoCall
    /\ ExamplesIdle

\* pay() throws e.
Throw(e) ==
    /\ pc' = "Failed"
    /\ result' = [kind |-> "error", txHash |-> <<>>, error |-> e]

\* pay() returns txHash.
Return(txHash) ==
    /\ pc' = "Succeeded"
    /\ result' = [kind |-> "txHash", txHash |-> txHash, error |-> NoError]

\* The body preparePayment posts.
PrepareBody(cfg, p, normalizedAmount) ==
    [to |-> p.to, amount |-> normalizedAmount,
     sourceNetwork |-> IF p.sourceNetwork # "" THEN p.sourceNetwork ELSE cfg.network,
     destinationNetwork |-> IF p.destinationNetwork # "" THEN p.destinationNetwork
                            ELSE detectNetworkFromAddress(cfg, p.to),
     token |-> "USDC"]

\* pay() up to the prepare-payment fetch: mode validation, _parseAmount,
\* network resolution, request sent.
PayStart ==
    /\ pc = "Idle"
    /\ LET normalized == parseAmount(params.amount)
       IN  IF params.paymentHeader.kind = "none" /\ ~config.privateKey
           THEN /\ Throw(Error("ValidationError", "mode", 0))
                /\ UNCHANGED prepareRequests
           ELSE IF ~normalized.ok
           THEN /\ Throw(Error("ValidationError", "amountFormat", 0))
                /\ UNCHANGED prepareRequests
           ELSE /\ prepareRequests' =
                       Append(prepareRequests, PrepareBody(config, params, normalized.value))
                /\ pc' = "Preparing"
                /\ UNCHANGED result
    /\ UNCHANGED <<examples, suspended, history, config, params, prepareData, calculatedFees, rankingRequests,
                   facilitators, fIdx, signerCalls, destAtaInfo, facilitatorHeaders,
                   i, lastError, inFlight, payRequests, lastResponse, settled>>

\* Mutant: 401 is treated like every other non-success response.
PrepareError_no401(kind) ==
    CASE kind \in {"unauthorized", "rejected"}
                               -> Error("PaymentError", "prepare401", 0)
      [] kind = "timeout"      -> Error("NetworkError", "prepareTimeout", 0)
      [] kind = "errorPage"    -> Error("NetworkError", "prepareErrorPage", 0)
      [] kind = "badBody"      -> Error("NetworkError", "prepareBadBody", 0)
      [] OTHER                 -> Error("NetworkError", "prepareNetwork", 0)

\* How a failed prepare-payment fetch surfaces (preparePayment 155-175).
\* The body is parsed after the 401 check and before the status check, so
\* a response whose body is not JSON ends in the catch like a failed fetch.
PrepareError(kind) ==
    CASE kind = "unauthorized" -> Error("AuthenticationError", "prepare401", 0)
      [] kind = "rejected"     -> Error("PaymentError", "prepareRejected", 0)
      [] kind = "timeout"      -> Error("NetworkError", "prepareTimeout", 0)
      [] kind = "errorPage"    -> Error("NetworkError", "prepareErrorPage", 0)
      [] kind = "badBody"      -> Error("NetworkError", "prepareBadBody", 0)
      [] OTHER                 -> Error("NetworkError", "prepareNetwork", 0)

\* What a failed prepare-payment fetch can be: 401, a non-success JSON
\* response, a non-success response with another body (a gateway's error
\* page), a 200 whose body does not parse, a timeout, no connection.
PrepareFailures == {"unauthorized", "rejected", "errorPage", "badBody",
                    "timeout", "networkError"}

\* preparePayment's fetch fails.
PrepareFails ==
    /\ pc = "Preparing"
    /\ \E kind \in PrepareFailures :
           Throw(PrepareError(kind))
    /\ UNCHANGED <<examples, suspended, history, config, params, prepareRequests, prepareData, calculatedFees,
                   rankingRequests, facilitators, fIdx, signerCalls, destAtaInfo,
                   facilitatorHeaders, i, lastError, inFlight, payRequests,
                   lastResponse, settled>>

\* preparePayment returns data.data; steps 2 and 3 of pay() follow at once:
\* calculateFees on the caller's amount string, then the sufficiency check.
PrepareSucceeds ==
    /\ pc = "Preparing"
    /\ \E data \in PrepareAnswers(prepareRequests[Len(prepareRequests)]) :
           LET calc == calculateFees(data, params.amount)
           IN  /\ prepareData' = data
               /\ IF ~calc.ok
                  THEN /\ Throw(Error("ValidationError", "feeAmount", 0))
                       /\ UNCHANGED calculatedFees
                  ELSE IF InsufficientAmount(calc.fees)
                  THEN /\ Throw(Error("ValidationError", "insufficient", 0))
                       /\ calculatedFees' = calc.fees
                  ELSE /\ pc' = "FeeChecked"
                       /\ calculatedFees' = calc.fees
                       /\ UNCHANGED result
    /\ UNCHANGED <<examples, suspended, history, config, params, prepareRequests, rankingRequests, facilitators,
                   fIdx, signerCalls, destAtaInfo, facilitatorHeaders, i, lastError,
                   inFlight, payRequests, lastResponse, settled>>

----------------------------------------------------------------------------
\* Signers (signer.ts).

\* Mutant: the account is created after the transfer.
Instructions_createLast(ataInfo) ==
    IF ataInfo = "missing"
    THEN <<"computeLimit", "computePrice", "transferChecked", "createAta">>
    ELSE <<"computeLimit", "computePrice", "transferChecked">>

\* The instruction list SolanaSigner.signPayment assembles.
Instructions(ataInfo) ==
    IF ataInfo = "missing"
    THEN <<"computeLimit", "computePrice", "createAta", "transferChecked">>
    ELSE <<"computeLimit", "computePrice", "transferChecked">>

\* payerKey of the compiled message: signPayment takes no fee-payer
\* parameter and always compiles PAYAI_FEE_PAYER.
SolanaPayerKey(feePayer) == PAYAI_FEE_PAYER

\* The chain of the EIP-712 domain: CHAIN_IDS[network] of the network the
\* signer was constructed with.
EVMSignerChain(cfg) == cfg.network

\* The chain of the Solana transaction: the USDC mint is the mainnet one.
SolanaSignerChain == "solana"

\* SolanaSigner.signPayment, on success.
SolanaSignPayment(to, amount, sourceNetwork, destinationNetwork, feePayer, ataInfo, fresh) ==
    [kind |-> "solana", network |-> sourceNetwork, chain |-> SolanaSignerChain,
     to |-> to,
     value |-> atomicUnits(amount), payerKey |-> SolanaPayerKey(feePayer),
     instructions |-> Instructions(ataInfo),
     crossChain |-> sourceNetwork # destinationNetwork, fresh |-> fresh]

\* EVMSigner.signPayment, on success.
EVMSignPayment(to, amount, sourceNetwork, destinationNetwork, fresh) ==
    [kind |-> "evm", network |-> sourceNetwork, chain |-> EVMSignerChain(config),
     to |-> to,
     value |-> atomicUnits(amount), payerKey |-> <<>>,
     instructions |-> <<>>, crossChain |-> FALSE, fresh |-> fresh]

\* getAccountInfo(destinationAta): unknown until the first signing reads it.
AtaAnswers(known) == IF known = "unknown" THEN {"exists", "missing"} ELSE {known}

SignerCall(signer, feePayer) ==
    [signer |-> signer, to |-> prepareData.signToAddress, amount |-> params.amount,
     feePayer |-> feePayer]

FacilitatorHeader(name, id, header, feePayer) ==
    [facilitatorName |-> name, facilitatorId |-> id, paymentHeader |-> header,
     solanaFeePayer |-> feePayer]

\* if (!feePayerAddress) continue
HasFeePayer(facilitator) == facilitator.solanaFeePayer # <<>>

\* The next facilitator from position k on that the for-of loop signs for.
NextToSign(fs, k) ==
    LET S == { j \in k..Len(fs) : HasFeePayer(fs[j]) }
    IN  IF S = {} THEN Len(fs) + 1
        ELSE CHOOSE j \in S : \A m \in S : j <= m

\* Mutant: the provided header is offered twice.
ProvidedHeaders_twice(header) ==
    << FacilitatorHeader(<<"provided">>, <<"provided">>, header, <<>>),
       FacilitatorHeader(<<"provided">>, <<"provided">>, header, <<>>) >>

\* Mode B: the provided header, as the only candidate.
ProvidedHeaders(header) ==
    << FacilitatorHeader(<<"provided">>, <<"provided">>, header, <<>>) >>

\* _signPayment's single fallback header.
FallbackHeaders(header) ==
    << FacilitatorHeader(<<"PayAI">>, <<"unknown">>, header, <<>>) >>

\* Mutant: the EVM branch returns the header once per default retry.
EVMHeaders_perRetry(header) ==
    << FacilitatorHeader(<<"all">>, <<"all">>, header, <<>>),
       FacilitatorHeader(<<"all">>, <<"all">>, header, <<>>) >>

\* _signPayment's EVM result.
EVMHeaders(header) ==
    << FacilitatorHeader(<<"all">>, <<"all">>, header, <<>>) >>

\* sourceNetwork.startsWith('solana')
IsSolana(network) == network = "solana"

\* Step 4 of pay() up to its first await: Mode B takes the provided header;
\* Mode A enters _signPayment, checks the signer and starts the ranking
\* fetch (Solana) or the EVM signing.
BeginSigning ==
    /\ pc = "FeeChecked"
    /\ IF params.paymentHeader.kind # "none"
       THEN /\ facilitatorHeaders' = ProvidedHeaders(params.paymentHeader)
            /\ pc' = "Submitting"
            /\ i' = 1
            /\ UNCHANGED <<rankingRequests, result>>
       ELSE IF IsSolana(prepareData.sourceNetwork)
       THEN IF ~HasSolanaSigner(config)
            THEN /\ Throw(Error("ValidationError", "solanaSigner", 0))
                 /\ UNCHANGED <<facilitatorHeaders, i, rankingRequests>>
            ELSE /\ rankingRequests' = rankingRequests + 1
                 /\ pc' = "Ranking"
                 /\ UNCHANGED <<facilitatorHeaders, i, result>>
       ELSE IF ~HasEVMSigner(config)
            THEN /\ Throw(Error("ValidationError", "evmSigner", 0))
                 /\ UNCHANGED <<facilitatorHeaders, i, rankingRequests>>
            ELSE /\ pc' = "SignEVM"
                 /\ UNCHANGED <<facilitatorHeaders, i, rankingRequests, result>>
    /\ UNCHANGED <<examples, suspended, history, config, params, prepareRequests, prepareData, calculatedFees,
                   facilitators, fIdx, signerCalls, destAtaInfo, lastError,
                   inFlight, payRequests, lastResponse, settled>>

\* The ranking fetch answers OK with a list of facilitators.
RankingAnswers ==
    /\ pc = "Ranking"
    /\ \E fs \in RankedLists :
           /\ facilitators' = fs
           /\ IF Len(fs) = 0
              THEN /\ pc' = "SignFallbackTry"
                   /\ UNCHANGED <<fIdx, i>>
              ELSE /\ fIdx' = NextToSign(fs, 1)
                   /\ IF fIdx' > Len(fs)
                      THEN pc' = "Submitting" /\ i' = 1
                      ELSE pc' = "SignLoop" /\ UNCHANGED i
    /\ UNCHANGED <<examples, suspended, history, config, params, prepareRequests, prepareData, calculatedFees,
                   rankingRequests, signerCalls, destAtaInfo, facilitatorHeaders,
                   lastError, inFlight, payRequests, lastResponse, settled, result>>

\* The ranking fetch answers with a non-OK status (fallback inside the try)
\* or rejects, times out or has an unparsable body (fallback in the catch).
RankingFails ==
    /\ pc = "Ranking"
    /\ \E kind \in {"notOk", "error"} :
           pc' = IF kind = "notOk" THEN "SignFallbackTry" ELSE "SignFallbackCatch"
    /\ UNCHANGED <<examples, suspended, history, config, params, prepareRequests, prepareData, calculatedFees,
                   rankingRequests, facilitators, fIdx, signerCalls, destAtaInfo,
                   facilitatorHeaders, i, lastError, inFlight, payRequests,
                   lastResponse, settled, result>>

\* One iteration of the for-of loop: sign for facilitators[fIdx] with its fee
\* payer; a signing failure is caught by the catch around the ranking fetch.
SignForFacilitator ==
    /\ pc = "SignLoop"
    /\ LET f == facilitators[fIdx]
       IN  /\ signerCalls' = Append(signerCalls, SignerCall("solana", f.solanaFeePayer))
           /\ \/ \E ata \in AtaAnswers(destAtaInfo) :
                    /\ destAtaInfo' = ata
                    /\ facilitatorHeaders' =
                           Append(facilitatorHeaders,
                                  FacilitatorHeader(f.facilitatorName, f.facilitatorId,
                                      SolanaSignPayment(prepareData.signToAddress,
                                          params.amount, prepareData.sourceNetwork,
                                          prepareData.destinationNetwork,
                                          f.solanaFeePayer, ata,
                                          Len(signerCalls) + 1),
                                      f.solanaFeePayer))
                    /\ fIdx' = NextToSign(facilitators, fIdx + 1)
                    /\ IF fIdx' > Len(facilitators)
                       THEN pc' = "Submitting" /\ i' = 1
                       ELSE pc' = "SignLoop" /\ UNCHANGED i
              \/ /\ pc' = "SignFallbackCatch"
                 /\ UNCHANGED <<destAtaInfo, facilitatorHeaders, fIdx, i>>
    /\ UNCHANGED <<examples, suspended, history, config, params, prepareRequests, prepareData, calculatedFees,
                   rankingRequests, facilitators, lastError, inFlight, payRequests,
                   lastResponse, settled, result>>

\* The fallback signing inside the try (empty list, non-OK status): a
\* failure lands in the catch, which signs once more.
SignFallbackInTry ==
    /\ pc = "SignFallbackTry"
    /\ signerCalls' = Append(signerCalls, SignerCall("solana", <<>>))
    /\ \/ \E ata \in AtaAnswers(destAtaInfo) :
             /\ destAtaInfo' = ata
             /\ facilitatorHeaders' =
                    FallbackHeaders(SolanaSignPayment(prepareData.signToAddress,
                        params.amount, prepareData.sourceNetwork,
                        prepareData.destinationNetwork, <<>>, ata,
                        Len(signerCalls) + 1))
             /\ pc' = "Submitting"
             /\ i' = 1
       \/ /\ pc' = "SignFallbackCatch"
          /\ UNCHANGED <<destAtaInfo, facilitatorHeaders, i>>
    /\ UNCHANGED <<examples, suspended, history, config, params, prepareRequests, prepareData, calculatedFees,
                   rankingRequests, facilitators, fIdx, lastError, inFlight,
                   payRequests, lastResponse, settled, result>>

\* The fallback signing in the catch: a failure leaves _signPayment and pay().
SignFallbackInCatch ==
    /\ pc = "SignFallbackCatch"
    /\ signerCalls' = Append(signerCalls, SignerCall("solana", <<>>))
    /\ \/ \E ata \in AtaAnswers(destAtaInfo) :
             /\ destAtaInfo' = ata
             /\ facilitatorHeaders' =
                    FallbackHeaders(SolanaSignPayment(prepareData.signToAddress,
                        params.amount, prepareData.sourceNetwork,
                        prepareData.destinationNetwork, <<>>, ata,
                        Len(signerCalls) + 1))
             /\ pc' = "Submitting"
             /\ i' = 1
             /\ UNCHANGED result
       \/ /\ Throw(Error("SigningError", "solana", 0))
          /\ UNCHANGED <<destAtaInfo, facilitatorHeaders, i>>
    /\ UNCHANGED <<examples, suspended, history, config, params, prepareRequests, prepareData, calculatedFees,
                   rankingRequests, facilitators, fIdx, lastError, inFlight,
                   payRequests, lastResponse, settled>>

\* The EVM branch of _signPayment.
SignEVM ==
    /\ pc = "SignEVM"
    /\ signerCalls' = Append(signerCalls, SignerCall("evm", <<>>))
    /\ \/ /\ facilitatorHeaders' =
                 EVMHeaders(EVMSignPayment(prepareData.signToAddress, params.amount,
                     prepareData.sourceNetwork, prepareData.destinationNetwork,
                     Len(signerCalls) + 1))
          /\ pc' = "Submitting"
          /\ i' = 1
          /\ UNCHANGED result
       \/ /\ Throw(Error("SigningError", "evm", 0))
          /\ UNCHANGED <<facilitatorHeaders, i>>
    /\ UNCHANGED <<examples, suspended, history, config, params, prepareRequests, prepareData, calculatedFees,
                   rankingRequests, facilitators, fIdx, destAtaInfo, lastError,
                   inFlight, payRequests, lastResponse, settled>>

----------------------------------------------------------------------------
\* Step 5 of pay(): the failover loop.

\* Mutant: the idempotency key is left out of the request.
IdempotencyKeyOf_dropped(p) == ""

\* ...(idempotencyKey && { idempotencyKey })
IdempotencyKeyOf(p) == p.idempotencyKey

\* priority = 'balanced' in the destructuring of params.
PriorityOf(p) == IF p.priority = "" THEN "balanced" ELSE p.priority

\* Mutant: the metadata of a request names the attempt.
RequestPayload_attemptMetadata(k) ==
    [paymentHeader |-> facilitatorHeaders[k].paymentHeader,
     to |-> params.to,
     amount |-> calculatedFees.grossAmount,
     sourceNetwork |-> prepareData.sourceNetwork,
     destinationNetwork |-> prepareData.destinationNetwork,
     token |-> "USDC",
     priority |-> PriorityOf(params),
     metadata |-> <<"attempt", k>>,
     idempotencyKey |-> IdempotencyKeyOf(params),
     bridgeOrderId |-> prepareData.bridgeOrderId,
     calculatedFees |-> [processingFee |-> calculatedFees.processingFee,
                         ataFee |-> calculatedFees.ataFee,
                         totalFees |-> calculatedFees.totalFees,
                         netAmount |-> calculatedFees.netAmount]]

\* Mutant: the settlement request carries no bridge order id.
RequestPayload_noOrderId(k) ==
    [paymentHeader |-> facilitatorHeaders[k].paymentHeader,
     to |-> params.to,
     amount |-> calculatedFees.grossAmount,
     sourceNetwork |-> prepareData.sourceNetwork,
     destinationNetwork |-> prepareData.destinationNetwork,
     token |-> "USDC",
     priority |-> PriorityOf(params),
     metadata |-> params.metadata,
     idempotencyKey |-> IdempotencyKeyOf(params),
     bridgeOrderId |-> "",
     calculatedFees |-> [processingFee |-> calculatedFees.processingFee,
                         ataFee |-> calculatedFees.ataFee,
                         totalFees |-> calculatedFees.totalFees,
                         netAmount |-> calculatedFees.netAmount]]

\* requestPayload of attempt k.
RequestPayload(k) ==
    [paymentHeader |-> facilitatorHeaders[k].paymentHeader,
     to |-> params.to,
     amount |-> calculatedFees.grossAmount,
     sourceNetwork |-> prepareData.sourceNetwork,
     destinationNetwork |-> prepareData.destinationNetwork,
     token |-> "USDC",
     priority |-> PriorityOf(params),
     metadata |-> params.metadata,
     idempotencyKey |-> IdempotencyKeyOf(params),
     bridgeOrderId |-> prepareData.bridgeOrderId,
     calculatedFees |-> [processingFee |-> calculatedFees.processingFee,
                         ataFee |-> calculatedFees.ataFee,
                         totalFees |-> calculatedFees.totalFees,
                         netAmount |-> calculatedFees.netAmount]]

\* The loop body up to its await: the request of header i is sent.
SendPay ==
    /\ pc = "Submitting"
    /\ i <= Len(facilitatorHeaders)
    /\ payRequests' = Append(payRequests, RequestPayload(i))
    /\ inFlight' = inFlight + 1
    /\ pc' = "AwaitPay"
    /\ UNCHANGED <<examples, suspended, history, config, params, prepareRequests, prepareData, calculatedFees,
                   rankingRequests, facilitators, fIdx, signerCalls, destAtaInfo,
                   facilitatorHeaders, i, lastError, lastResponse, settled, result>>

\* What a settlement attempt can end in: a success response, 401, a
\* FEE_MISMATCH response, another non-success response, a fetch rejection,
\* a timeout, a response whose body does not parse.
ResponseKinds == {"success", "unauthorized", "feeMismatch", "rejected",
                  "networkError", "timeout", "badBody"}

\* Mutant: every failure is rethrown at once, no failover.
Disposition_noFailover(kind) ==
    IF kind = "success" THEN "return" ELSE "abort"

\* Mutant: the catch rethrows nothing, so 401 and fee mismatch fail over.
Disposition_retryAll(kind) ==
    IF kind = "success" THEN "return" ELSE "retry"

\* How the loop body treats a completed attempt: return the hash, rethrow
\* at once (401, fee mismatch), or record lastError and go on.
Disposition(kind) ==
    CASE kind = "success" -> "return"
      [] kind \in {"unauthorized", "feeMismatch"} -> "abort"
      [] OTHER -> "retry"

\* The errors thrown inside the loop body for a completed attempt k.  The
\* DOMException of AbortSignal.timeout is named TimeoutError or AbortError,
\* depending on the runtime.
AttemptErrors(kind, k) ==
    CASE kind = "unauthorized" -> {Error("AuthenticationError", "pay", k)}
      [] kind = "feeMismatch"  -> {Error("PaymentError", "feeMismatch", k)}
      [] kind = "rejected"     -> {Error("PaymentError", "rejected", k)}
      [] kind = "timeout"      -> {Error("AbortError", "timeout", k),
                                   Error("TimeoutError", "timeout", k)}
      [] kind = "badBody"      -> {Error("SyntaxError", "json", k)}
      [] OTHER                 -> {Error("TypeError", "fetch", k)}

\* Mutant: the first error is kept instead of the last.
RecordError_first(previous, error) ==
    IF previous.type = "none" THEN error ELSE previous

\* lastError = error
RecordError(previous, error) == error

\* Mutant: the loop retries the same index.
NextAttempt_same(k) == k

\* Mutant: the loop skips a header.
NextAttempt_skip(k) == k + 2

\* Mutant: the loop goes back to the header before.
NextAttempt_back(k) == IF k > 1 THEN k - 1 ELSE k + 1

\* i++ of the for loop.
NextAttempt(k) == k + 1

\* if (i < facilitatorHeaders.length - 1) continue   (0-based in the code)
MoreHeaders(k, headers) == k < Len(headers)

\* Mutant: the last error is rethrown as it is.
FinalError_raw(e) ==
    IF e.type = "none" THEN Error("NetworkError", "noAttempt", 0) ELSE e

\* What pay() throws after the loop (435-448).
FinalError(e) ==
    IF e.type = "none" THEN Error("NetworkError", "noAttempt", 0)
    ELSE IF IsUplinkError(e) THEN e
    ELSE IF e.type = "AbortError" THEN Error("NetworkError", "requestTimeout", e.attempt)
    ELSE Error("NetworkError", "allFailed", e.attempt)

\* The idempotency key the caller gave call c.
KeyOfCall(c) ==
    IF suspended # NoCall /\ suspended.call = c
    THEN suspended.params.idempotencyKey
    ELSE params.idempotencyKey

\* The settlements of requests that carried idempotency key `key`.
StoredFor(key) ==
    { k \in 1..Len(settled) : KeyOfCall(settled[k][1]) = key }

\* The aggregator answers a request that repeats the idempotency key of a
\* settlement from its store.
Deduplicated ==
    /\ payRequests[Len(payRequests)].idempotencyKey # ""
    /\ StoredFor(payRequests[Len(payRequests)].idempotencyKey) # {}

\* The settlement the aggregator's store holds for the key of the request.
StoredSettlement ==
    LET S == StoredFor(payRequests[Len(payRequests)].idempotencyKey)
    IN  settled[CHOOSE k \in S : \A m \in S : k <= m]

\* The number of the running pay() call among the caller's calls.
CallNumber ==
    IF suspended = NoCall THEN Len(history) + 1 ELSE 3 - suspended.call

\* The settlement request in flight: attempt i of the running pay() call.
RequestId == <<CallNumber, i>>

\* The settlements an attempt ending in `kind` can have caused: a success
\* is a settlement (or a stored one), an error response is none, and a
\* timeout or a lost connection leaves it open.
SettleOutcomes(kind) ==
    CASE kind = "success" -> {TRUE}
      [] kind \in {"timeout", "networkError"} -> BOOLEAN
      [] OTHER -> {FALSE}

\* The fetch of attempt i completes; the rest of the loop body runs.
PayResponse ==
    /\ pc = "AwaitPay"
    /\ inFlight' = inFlight - 1
    /\ \E kind \in ResponseKinds : \E didSettle \in SettleOutcomes(kind) :
         LET txHash == IF kind # "success" THEN <<>>
                       ELSE IF Deduplicated THEN <<"tx", StoredSettlement>>
                       ELSE <<"tx", RequestId>>
         IN
         /\ settled' = IF didSettle /\ ~Deduplicated THEN Append(settled, RequestId)
                       ELSE settled
         /\ lastResponse' = [kind |-> kind, txHash |-> txHash]
         /\ CASE Disposition(kind) = "return" ->
                   /\ Return(txHash)
                   /\ UNCHANGED <<i, lastError>>
              [] Disposition(kind) = "abort" ->
                   /\ \E error \in AttemptErrors(kind, i) : Throw(error)
                   /\ UNCHANGED <<i, lastError>>
              [] OTHER ->
                   /\ \E error \in AttemptErrors(kind, i) :
                          lastError' = RecordError(lastError, error)
                   /\ IF MoreHeaders(i, facilitatorHeaders)
                      THEN /\ i' = NextAttempt(i)
                           /\ pc' = "Submitting"
                           /\ UNCHANGED result
                      ELSE /\ Throw(FinalError(lastError'))
                           /\ UNCHANGED i
    /\ UNCHANGED <<examples, suspended, history, config, params, prepareRequests, prepareData, calculatedFees,
                   rankingRequests, facilitators, fIdx, signerCalls, destAtaInfo,
                   facilitatorHeaders, payRequests>>

\* The loop has nothing to iterate: pay() throws after it.
NoHeaders ==
    /\ pc = "Submitting"
    /\ i > Len(facilitatorHeaders)
    /\ Throw(FinalError(lastError))
    /\ UNCHANGED <<examples, suspended, history, config, params, prepareRequests, prepareData, calculatedFees,
                   rankingRequests, facilitators, fIdx, signerCalls, destAtaInfo,
                   facilitatorHeaders, i, lastError, inFlight, payRequests,
                   lastResponse, settled>>

----------------------------------------------------------------------------
Next ==
    \/ PayStart
    \/ PrepareFails
    \/ PrepareSucceeds
    \/ BeginSigning
    \/ RankingAnswers
    \/ RankingFails
    \/ SignForFacilitator
    \/ SignFallbackInTry
    \/ SignFallbackInCatch
    \/ SignEVM
    \/ SendPay
    \/ PayResponse
    \/ NoHeaders

Spec == Init /\ [][Next]_vars

\* One pay() call in which every step that can be taken is taken in the
\* end: the code runs on, and every fetch and every signer call returns,
\* throws or times out (AbortSignal.timeout on each fetch).
LiveSpec == Init /\ [][Next]_vars /\ WF_vars(Next)

----------------------------------------------------------------------------
\* Properties.

ModeA == params.paymentHeader.kind = "none"
Finished == pc \in {"Succeeded", "Failed"}
SigningDone == i >= 1
RetryableKinds == {"rejected", "networkError", "timeout"}

\* The amount does not parse as a number or is not positive.
BadAmount ==
    parseFloat(params.amount).nan \/ parseFloat(params.amount).v <= 0

\* The locally computed total fees exceed the gross amount.
FeesExceedGross ==
    /\ prepareData # NoPrepareData
    /\ calculateFees(prepareData, params.amount).ok
    /\ LET fees == calculateFees(prepareData, params.amount).fees
       IN  fees.grossAmount < fees.totalFees

NothingSignedOrSubmitted == signerCalls = <<>> /\ payRequests = <<>>

\* C1 as stated: with a non-numeric or non-positive amount, or total fees
\* above the gross amount, a finished pay() has failed with a
\* ValidationError, and it never signs nor sends a settlement request.
C1_AsStated ==
    (BadAmount \/ FeesExceedGross) =>
        /\ NothingSignedOrSubmitted
        /\ Finished => /\ result.kind = "error"
                       /\ result.error.type = "ValidationError"

PreparationFailed ==
    result.error.cause \in {"prepare401", "prepareRejected", "prepareTimeout",
                            "prepareErrorPage", "prepareBadBody", "prepareNetwork"}

\* C1 amended: with such an amount pay() never signs, never sends a
\* settlement request and never succeeds; it fails with a ValidationError
\* unless the prepare-payment request itself failed, and then with the
\* error of that request.
C1_NoSigningOnBadAmount ==
    (BadAmount \/ FeesExceedGross) =>
        /\ NothingSignedOrSubmitted
        /\ pc \in {"Idle", "Preparing", "Failed"}
        /\ pc = "Failed" =>
              \/ result.error.type = "ValidationError"
              \/ /\ PreparationFailed
                 /\ result.error.type \in {"AuthenticationError", "PaymentError",
                                           "NetworkError"}

\* $0.20 against $0.41 of fees: rejected as insufficient, nothing signed.
C1_Witness ==
    /\ pc = "Failed"
    /\ result.error = Error("ValidationError", "insufficient", 0)
    /\ calculatedFees.grossAmount = 200000
    /\ calculatedFees.totalFees = 410000
    /\ NothingSignedOrSubmitted

\* Requests go out in the order of the header list, one per header reached.
InRankedOrder ==
    \A k \in 1..Len(payRequests) :
        /\ k <= Len(facilitatorHeaders)
        /\ payRequests[k].paymentHeader = facilitatorHeaders[k].paymentHeader

\* C2: a retryable failure of attempt j < n is followed by the submission of
\* header j + 1, and when attempt k succeeds pay() returns the hash of that
\* response after exactly k requests, sent in ranked order, and stops.
C2_FailoverReturnsFirstSuccess ==
    /\ (lastResponse.kind \in RetryableKinds /\ lastError.attempt < Len(facilitatorHeaders))
          => /\ pc \in {"Submitting", "AwaitPay"}
             /\ i = lastError.attempt + 1
    /\ lastResponse.kind = "success"
          => /\ pc = "Succeeded"
             /\ result.kind = "txHash"
             /\ result.txHash = lastResponse.txHash
             /\ Len(payRequests) = i
             /\ InRankedOrder

\* Two ordinary failures, then the third facilitator settles.
C2_Witness ==
    /\ pc = "Succeeded"
    /\ Len(facilitatorHeaders) = 3
    /\ Len(payRequests) = 3
    /\ lastError = Error("PaymentError", "rejected", 2)
    /\ result.txHash = <<"tx", <<1, 3>>>>

\* C3: a 401 or a FEE_MISMATCH response to attempt i ends pay() at once with
\* an AuthenticationError, respectively a PaymentError, of that attempt, and
\* no header after i is submitted.
C3_NonRetryableAborts ==
    lastResponse.kind \in {"unauthorized", "feeMismatch"} =>
        /\ pc = "Failed"
        /\ result.error.attempt = i
        /\ result.error.type = IF lastResponse.kind = "unauthorized"
                               THEN "AuthenticationError" ELSE "PaymentError"
        /\ lastResponse.kind = "feeMismatch" => result.error.cause = "feeMismatch"
        /\ Len(payRequests) = i

\* A fee mismatch on the first of three candidates.
C3_Witness ==
    /\ pc = "Failed"
    /\ lastResponse.kind = "feeMismatch"
    /\ Len(facilitatorHeaders) = 3
    /\ Len(payRequests) = 1

\* C4: when pay() fails on a retryable failure, every header has been
\* submitted and the error is that of the last attempt: a NetworkError for a
\* timeout or a lost connection, a PaymentError for a rejection.
C4_LastErrorAfterAllHeaders ==
    (pc = "Failed" /\ lastResponse.kind \in RetryableKinds \cup {"badBody"}) =>
        /\ Len(payRequests) = Len(facilitatorHeaders)
        /\ result.error.attempt = Len(facilitatorHeaders)
        /\ lastResponse.kind \in {"timeout", "networkError"}
              => result.error.type = "NetworkError"
        /\ lastResponse.kind = "timeout"
              => result.error.cause \in {"requestTimeout", "allFailed"}
        /\ lastResponse.kind = "rejected"
              => result.error = Error("PaymentError", "rejected", Len(facilitatorHeaders))

\* Three candidates: the last one times out and that is what surfaces.
C4_Witness ==
    /\ pc = "Failed"
    /\ Len(facilitatorHeaders) = 3
    /\ lastResponse.kind = "timeout"
    /\ result.error = Error("NetworkError", "requestTimeout", 3)

\* C5: at most one settlement request is in flight, a request is only sent
\* when none is, and request k carries header k, so no header is submitted
\* twice and there are never more requests than headers.
C5_SequentialAttempts ==
    /\ inFlight \in {0, 1}
    /\ inFlight = 1 <=> pc = "AwaitPay"
    /\ Len(payRequests) <= Len(facilitatorHeaders)
    /\ InRankedOrder
    /\ pc \in {"Submitting", "AwaitPay"} /\ SigningDone
          => Len(payRequests) = i - (IF pc = "Submitting" THEN 1 ELSE 0)

\* The second of three requests is in flight, the first has completed.
C5_Witness ==
    /\ pc = "AwaitPay"
    /\ inFlight = 1
    /\ Len(payRequests) = 2
    /\ Len(facilitatorHeaders) = 3

\* C6 as stated: one pay() call leads to at most one settlement.
C6_AtMostOneSettlement == Len(settled) <= 1

\* C7 as stated: in Mode A every signed header carries, in atomic units,
\* the gross amount that the settlement requests name.
C7_SignedAmountIsGross ==
    (ModeA /\ SigningDone) =>
        /\ \A k \in 1..Len(facilitatorHeaders) :
               facilitatorHeaders[k].paymentHeader.value = calculatedFees.grossAmount
        /\ \A k \in 1..Len(payRequests) :
               payRequests[k].paymentHeader.value = payRequests[k].amount

\* C8 as stated: the fee payer compiled into a ranked facilitator's header
\* is the solanaFeePayer recorded with it; the default fee payer appears
\* only in a header made without one.
C8_FeePayerIsFacilitators ==
    (ModeA /\ SigningDone) =>
        \A k \in 1..Len(facilitatorHeaders) :
            LET h == facilitatorHeaders[k]
            IN  h.paymentHeader.kind = "solana" =>
                    IF h.solanaFeePayer # <<>>
                    THEN h.paymentHeader.payerKey = h.solanaFeePayer
                    ELSE h.paymentHeader.payerKey = PAYAI_FEE_PAYER

\* C9: in Mode A with a non-Solana source network no ranking is fetched,
\* signing yields exactly one header, and at most one settlement request is
\* sent: a retryable failure of it ends pay().
C9_EVMSingleHeader ==
    (ModeA /\ prepareData # NoPrepareData /\ ~IsSolana(prepareData.sourceNetwork)) =>
        /\ rankingRequests = 0
        /\ Len(payRequests) <= 1
        /\ SigningDone => Len(facilitatorHeaders) = 1
        /\ SigningDone => facilitatorHeaders[1].paymentHeader.kind = "evm"
        /\ (lastResponse.kind \in RetryableKinds) => pc = "Failed"

\* An EVM payment whose only attempt is rejected: no second attempt.
C9_Witness ==
    /\ ModeA
    /\ prepareData.sourceNetwork = "base"
    /\ pc = "Failed"
    /\ Len(payRequests) = 1
    /\ lastResponse.kind = "rejected"

\* The headers C10 expects for a ranking: one per facilitator with a fee
\* payer, in ranking order.
RECURSIVE ExpectedNames(_)
ExpectedNames(fs) ==
    IF fs = <<>> THEN <<>>
    ELSE IF fs[1].solanaFeePayer # <<>>
         THEN <<fs[1].facilitatorName>> \o ExpectedNames(Tail(fs))
         ELSE ExpectedNames(Tail(fs))

\* C10 as stated: in Mode A on Solana, once signing has returned, a
\* non-empty ranking gives one header per facilitator that has a fee payer,
\* in ranking order; a failed or empty ranking gives exactly one header
\* signed with the default fee payer.
C10_HeadersFollowRanking ==
    (ModeA /\ SigningDone /\ IsSolana(prepareData.sourceNetwork)) =>
        IF facilitators # <<>>
        THEN [k \in 1..Len(facilitatorHeaders) |-> facilitatorHeaders[k].facilitatorName]
                 = ExpectedNames(facilitators)
        ELSE /\ Len(facilitatorHeaders) = 1
             /\ facilitatorHeaders[1].facilitatorName = <<"PayAI">>
             /\ facilitatorHeaders[1].paymentHeader.payerKey = PAYAI_FEE_PAYER

----------------------------------------------------------------------------
\* Fee calculation on its own: calculateFees and the sufficiency check of
\* pay() applied to every preparation result of type PreparePaymentResponse,
\* followed by the caller's retry with the minimum payment the rejection
\* message reports.

\* "0.0015", "0.05", "0.20", "0.41", "2.01", "10", "1.0000007", "0", "-5",
\* "abc"
FeeAmounts ==
    { AmountString(FALSE, FALSE, 15000, FALSE),
      AmountString(FALSE, FALSE, 500000, FALSE),
      AmountString(FALSE, FALSE, 2000000, FALSE),
      AmountString(FALSE, FALSE, 4100000, FALSE),
      AmountString(FALSE, FALSE, 20100000, FALSE),
      AmountString(FALSE, FALSE, 100000000, FALSE),
      AmountString(FALSE, FALSE, 10000007, FALSE),
      AmountString(FALSE, FALSE, 0, FALSE),
      AmountString(FALSE, TRUE, 50000000, FALSE),
      JunkString }

\* Fee snapshots: same-chain 0 % or 0.1 %, cross-chain 0.1 % or 1 %, with
\* or without the $0.01 cross-chain minimum, $0.40 account creation.
FeeConfigs ==
    { [FeeConfig EXCEPT !.samechainFeePercent = same,
                        !.crosschainFeePercent = cross,
                        !.minimumCrosschainFee = minimum]
      : same \in {0, 1}, cross \in {1, 10}, minimum \in {0, 100000000} }

\* Every PreparePaymentResponse as far as calculateFees reads it.  The
\* type relates isCrossChain to the two networks in no way.
PreparationResults ==
    [feeConfig : FeeConfigs, ataCheck : [needsCreation : BOOLEAN],
     signToAddress : {"intermediateWallet"}, bridgeOrderId : {""},
     sourceNetwork : Networks, destinationNetwork : Networks,
     isCrossChain : BOOLEAN]

FeeInit ==
    /\ config = [privateKey |-> TRUE, network |-> "base"]
    /\ params \in [to : {Address("0xRecipient", TRUE, 42, FALSE, FALSE)},
                   amount : FeeAmounts, paymentHeader : {NoHeader},
                   sourceNetwork : {""}, destinationNetwork : {""},
                   idempotencyKey : {""}, priority : {""},
                   metadata : {NoMetadata}]
    /\ prepareData \in PreparationResults
    /\ pc = "Idle"
    /\ prepareRequests = <<>>
    /\ calculatedFees = NoFees
    /\ rankingRequests = 0
    /\ facilitators = <<>>
    /\ fIdx = 0
    /\ signerCalls = <<>>
    /\ destAtaInfo = "unknown"
    /\ facilitatorHeaders = <<>>
    /\ i = 0
    /\ lastError = NoError
    /\ inFlight = 0
    /\ payRequests = <<>>
    /\ lastResponse = [kind |-> "none", txHash |-> <<>>]
    /\ settled = <<>>
    /\ result = [kind |-> "pending", txHash |-> <<>>, error |-> NoError]
    /\ history = <<>>
    /\ suspended = NoCall
    /\ ExamplesIdle

\* Steps 2 and 3 of pay() on a given preparation result.
FeeCheck ==
    /\ pc = "Idle"
    /\ LET calc == calculateFees(prepareData, params.amount)
       IN  IF ~calc.ok
           THEN /\ Throw(Error("ValidationError", "feeAmount", 0))
                /\ UNCHANGED calculatedFees
           ELSE IF InsufficientAmount(calc.fees)
           THEN /\ Throw(Error("ValidationError", "insufficient", 0))
                /\ calculatedFees' = calc.fees
           ELSE /\ pc' = "FeeChecked"
                /\ calculatedFees' = calc.fees
                /\ UNCHANGED result
    /\ UNCHANGED <<examples, suspended, history, config, params, prepareRequests, prepareData, rankingRequests,
                   facilitators, fIdx, signerCalls, destAtaInfo, facilitatorHeaders,
                   i, lastError, inFlight, payRequests, lastResponse, settled>>

\* Mutant: the reported minimum without the one-cent margin.
MinimumPayment_noMargin(fees) == toFixed2(fees.totalFees * 10)

\* `Minimum payment: $${(totalFeesNum + 0.01).toFixed(2)}`
MinimumPayment(fees) == toFixed2(fees.totalFees * 10 + 100000)

\* The caller reads the rejection and pays again with the reported minimum;
\* fee configuration and account-existence flag are the same.
RetryWithMinimum ==
    /\ pc = "Failed"
    /\ result.error.cause = "insufficient"
    /\ history = <<>>
    /\ params' = [params EXCEPT !.amount = MinimumPayment(calculatedFees)]
    /\ history' = Append(history, result)
    /\ result' = [kind |-> "pending", txHash |-> <<>>, error |-> NoError]
    /\ calculatedFees' = NoFees
    /\ pc' = "Idle"
    /\ UNCHANGED <<examples, suspended, config, prepareRequests, prepareData, rankingRequests,
                   facilitators, fIdx, signerCalls, destAtaInfo, facilitatorHeaders,
                   i, lastError, inFlight, payRequests, lastResponse, settled>>

FeeNext ==
    \/ FeeCheck
    \/ RetryWithMinimum

FeeSpec == FeeInit /\ [][FeeNext]_vars

FeesCalculated == calculatedFees # NoFees

\* C11 as stated: the returned account-creation fee is ataCreationFee when
\* the account needs creation and 0 otherwise, the returned totalFees is
\* processingFee + ataFee, and the returned netAmount is
\* max(0, grossAmount - totalFees).
C11_FeeIdentities ==
    FeesCalculated =>
        /\ calculatedFees.ataFee = IF prepareData.ataCheck.needsCreation
                                   THEN prepareData.feeConfig.ataCreationFee ELSE 0
        /\ calculatedFees.totalFees =
               calculatedFees.processingFee + calculatedFees.ataFee
        /\ calculatedFees.netAmount =
               IF calculatedFees.grossAmount - calculatedFees.totalFees < 0 THEN 0
               ELSE calculatedFees.grossAmount - calculatedFees.totalFees

\* The processing fee before rounding, in 1e-10 USD: gross * feePercent / 100
\* with the percentage the preparation result selects.
PercentFee == parseFloat(params.amount).v * calculatedFees.processingFeePercent

\* A fee in 1e-10 USD as toFixed(6) returns it, in atomic units.
Rounded6(fee) == (fee + 5000) \div 10000

\* C12: minimumFeeApplied is true exactly when the payment is cross-chain,
\* the configured minimum is positive and gross * feePercent / 100 is below
\* it, and then the processing fee is the minimum; otherwise the processing
\* fee is gross * feePercent / 100 and the flag is false, so a same-chain fee
\* is never clamped.
C12_MinimumFeeClamp ==
    FeesCalculated =>
        LET minimum == prepareData.feeConfig.minimumCrosschainFee
            clamp == /\ prepareData.isCrossChain
                     /\ minimum > 0
                     /\ PercentFee < minimum
        IN  /\ calculatedFees.minimumFeeApplied = clamp
            /\ clamp => calculatedFees.processingFee = Rounded6(minimum)
            /\ ~clamp => calculatedFees.processingFee = Rounded6(PercentFee)
            /\ ~prepareData.isCrossChain =>
                  /\ ~calculatedFees.minimumFeeApplied
                  /\ calculatedFees.processingFee = Rounded6(PercentFee)

\* Cross-chain, 0.1 %, minimum $0.01, gross $0.05: clamped to $0.01.
C12_Witness ==
    /\ FeesCalculated
    /\ prepareData.isCrossChain
    /\ prepareData.feeConfig.crosschainFeePercent = 1
    /\ prepareData.feeConfig.minimumCrosschainFee = 100000000
    /\ calculatedFees.grossAmount = 50000
    /\ calculatedFees.processingFee = 10000
    /\ calculatedFees.minimumFeeApplied

NetworksDiffer == prepareData.sourceNetwork # prepareData.destinationNetwork

IsRetry == history # <<>> /\ history[1].error.cause = "insufficient"

\* C14: a pay() repeated with the minimum payment reported by an
\* insufficient-amount rejection, under the same fee configuration and
\* account-existence flag, passes the sufficiency check.
C14_MinimumPaymentSuffices ==
    (IsRetry /\ pc # "Idle") =>
        /\ pc = "FeeChecked"
        /\ calculatedFees.grossAmount >= calculatedFees.totalFees

\* $0.20 was rejected against $0.4002 of fees; the retry with $0.41 passes.
C14_Witness ==
    /\ IsRetry
    /\ pc = "FeeChecked"
    /\ params.amount = AmountString(FALSE, FALSE, 4100000, FALSE)
    /\ calculatedFees.totalFees = 400410
    /\ prepareData.ataCheck.needsCreation

----------------------------------------------------------------------------
\* Normalization on its own: pay() up to the prepare-payment request, which
\* carries the result of _parseAmount and of the network resolution, for
\* every shape of amount and address; the caller may pass the normalized
\* amount in again.

\* "10", "10.00", "10.50", "10.504", "$10", "10 USDC", "$10.50 USDC", "0",
\* "-5", "-0.001", "$-0.004", "abc"
NormalizerAmounts ==
    { AmountString(FALSE, FALSE, 100000000, FALSE),
      AmountString(FALSE, FALSE, 105000000, FALSE),
      AmountString(FALSE, FALSE, 105040000, FALSE),
      AmountString(TRUE, FALSE, 100000000, FALSE),
      AmountString(FALSE, FALSE, 100000000, TRUE),
      AmountString(TRUE, FALSE, 105000000, TRUE),
      AmountString(FALSE, FALSE, 0, FALSE),
      AmountString(FALSE, TRUE, 50000000, FALSE),
      AmountString(FALSE, TRUE, 10000, FALSE),
      AmountString(TRUE, TRUE, 40000, FALSE),
      JunkString }

\* Address shapes.  A base58 string holds neither "0" nor ".", so it has no
\* 0x prefix and no ".eth"; a name may both start with 0x and hold ".eth".
AddressShapes ==
    { Address("0x + 40 hex", TRUE, 42, FALSE, FALSE),
      Address("0x + 38 hex", TRUE, 40, FALSE, FALSE),
      Address("0x + 36 chars + .eth", TRUE, 42, FALSE, TRUE),
      Address("base58, 44 chars", FALSE, 44, TRUE, FALSE),
      Address("base58, 32 chars", FALSE, 32, TRUE, FALSE),
      Address("base58, 31 chars", FALSE, 31, TRUE, FALSE),
      Address("base58, 45 chars", FALSE, 45, TRUE, FALSE),
      Address("vitalik.eth", FALSE, 11, FALSE, TRUE),
      Address("36 chars with .eth", FALSE, 36, FALSE, TRUE),
      Address("36 chars with a space", FALSE, 36, FALSE, FALSE),
      Address("garbage", FALSE, 7, FALSE, FALSE) }

NormalizerInit ==
    /\ config \in [privateKey : {TRUE}, network : Networks]
    /\ params \in [to : AddressShapes, amount : NormalizerAmounts,
                   paymentHeader : {NoHeader},
                   sourceNetwork : {""} \cup Networks,
                   destinationNetwork : {""} \cup Networks,
                   idempotencyKey : {""}, priority : {""},
                   metadata : {NoMetadata}]
    /\ pc = "Idle"
    /\ prepareRequests = <<>>
    /\ prepareData = NoPrepareData
    /\ calculatedFees = NoFees
    /\ rankingRequests = 0
    /\ facilitators = <<>>
    /\ fIdx = 0
    /\ signerCalls = <<>>
    /\ destAtaInfo = "unknown"
    /\ facilitatorHeaders = <<>>
    /\ i = 0
    /\ lastError = NoError
    /\ inFlight = 0
    /\ payRequests = <<>>
    /\ lastResponse = [kind |-> "none", txHash |-> <<>>]
    /\ settled = <<>>
    /\ result = [kind |-> "pending", txHash |-> <<>>, error |-> NoError]
    /\ history = <<>>
    /\ suspended = NoCall
    /\ ExamplesIdle

\* The caller passes the normalized amount of the first request in again.
NormalizeAgain ==
    /\ pc = "Preparing"
    /\ Len(prepareRequests) = 1
    /\ params' = [params EXCEPT !.amount = prepareRequests[1].amount]
    /\ pc' = "Idle"
    /\ UNCHANGED <<examples, suspended, history, config, prepareRequests, prepareData, calculatedFees,
                   rankingRequests, facilitators, fIdx, signerCalls, destAtaInfo,
                   facilitatorHeaders, i, lastError, inFlight, payRequests,
                   lastResponse, settled, result>>

NormalizerNext ==
    \/ PayStart
    \/ NormalizeAgain

NormalizerSpec == NormalizerInit /\ [][NormalizerNext]_vars

\* The canonical 2-decimal string of a signed magnitude: the sign of a
\* number below zero, the magnitude rounded to cents.
Canonical(neg, mag) ==
    [dollar |-> FALSE, body |-> "num", neg |-> neg /\ mag > 0,
     mag |-> ((mag + 50000) \div 100000) * 100000, label |-> FALSE]

Normalized == prepareRequests[Len(prepareRequests)].amount

\* The amount is negative and rounds to zero cents: "-0.001" gives "-0.00".
NegativeZero ==
    /\ prepareRequests # <<>>
    /\ prepareRequests[1].amount.neg
    /\ prepareRequests[1].amount.mag = 0

\* C15 as stated: a numeric amount normalizes, with or without "$" and
\* "USDC", to the canonical 2-decimal string of its number; normalizing a
\* normalized amount returns it unchanged; an amount whose remainder is not
\* numeric fails with a ValidationError.
C15_AsStated ==
    /\ (pc = "Preparing" /\ params.amount.body = "num")
          => Normalized = Canonical(params.amount.neg, params.amount.mag)
    /\ (pc # "Idle" /\ params.amount.body = "num") => pc = "Preparing"
    /\ Len(prepareRequests) = 2 => prepareRequests[2].amount = prepareRequests[1].amount
    /\ (pc # "Idle" /\ params.amount.body = "junk")
          => /\ result.error = Error("ValidationError", "amountFormat", 0)
             /\ prepareRequests = <<>>

\* C15 amended: as C15, with idempotence for every amount except a
\* negative one that rounds to zero cents ("-0.00" normalizes to "0.00").
C15_NormalizationCanonical ==
    /\ (pc = "Preparing" /\ params.amount.body = "num")
          => Normalized = Canonical(params.amount.neg, params.amount.mag)
    /\ (pc # "Idle" /\ params.amount.body = "num") => pc = "Preparing"
    /\ Len(prepareRequests) = 2 =>
          IF NegativeZero
          THEN prepareRequests[2].amount = Canonical(FALSE, 0)
          ELSE prepareRequests[2].amount = prepareRequests[1].amount
    /\ (pc # "Idle" /\ params.amount.body = "junk")
          => /\ result.error = Error("ValidationError", "amountFormat", 0)
             /\ prepareRequests = <<>>

\* "$10.50 USDC" went out as "10.50", and "10.50" went out as "10.50" again.
C15_Witness ==
    /\ Len(prepareRequests) = 2
    /\ prepareRequests[1].amount = Canonical(FALSE, 105000000)
    /\ prepareRequests[2].amount = Canonical(FALSE, 105000000)
    /\ params.amount = Canonical(FALSE, 105000000)

\* The shape rules of _detectNetworkFromAddress, each on its own.
IsEvmShape(addr) == addr.prefix0x /\ addr.length = 42
IsSolanaShape(addr) == addr.length >= 32 /\ addr.length <= 44 /\ addr.base58
IsEnsShape(addr) == addr.dotEth

RulesMatching(addr) ==
    (IF IsEvmShape(addr) THEN {"evm"} ELSE {})
       \cup (IF IsSolanaShape(addr) THEN {"solana"} ELSE {})
       \cup (IF IsEnsShape(addr) THEN {"ens"} ELSE {})

\* Network resolution: every numeric-amount call reaches the prepare
\* request, whose networks are the explicit parameter if there is one, else
\* the configured default (source) or the network of the address shape
\* (destination), the configured default for an address of no shape.
ResolutionAsSpecified ==
    /\ (pc # "Idle" /\ params.amount.body = "num") => pc = "Preparing"
    /\ pc = "Preparing" =>
          LET body == prepareRequests[Len(prepareRequests)]
          IN  /\ body.sourceNetwork = IF params.sourceNetwork # ""
                                      THEN params.sourceNetwork ELSE config.network
              /\ params.destinationNetwork # ""
                    => body.destinationNetwork = params.destinationNetwork
              /\ params.destinationNetwork = "" =>
                    /\ IsEvmShape(params.to) => body.destinationNetwork = "base"
                    /\ IsSolanaShape(params.to) => body.destinationNetwork = "solana"
                    /\ IsEnsShape(params.to) => body.destinationNetwork = "base"
                    /\ RulesMatching(params.to) = {}
                          => body.destinationNetwork = config.network

\* C19 as stated: resolution as specified, and no address matches two of
\* the three shape rules.
C19_AsStated ==
    /\ ResolutionAsSpecified
    /\ pc = "Preparing" => Cardinality(RulesMatching(params.to)) <= 1

\* C19 amended: resolution as specified; the base58 rule matches no address
\* that another rule matches, and an address matching both the 0x rule and
\* the .eth rule resolves to base.
C19_NetworkResolution ==
    /\ ResolutionAsSpecified
    /\ (pc = "Preparing" /\ IsSolanaShape(params.to))
          => RulesMatching(params.to) = {"solana"}
    /\ (pc = "Preparing" /\ params.destinationNetwork = ""
           /\ RulesMatching(params.to) = {"evm", "ens"})
          => prepareRequests[Len(prepareRequests)].destinationNetwork = "base"

\* A 40-character 0x string on a Solana-default client, no explicit
\* networks: both networks fall back to solana.
C19_Witness ==
    /\ pc = "Preparing"
    /\ config.network = "solana"
    /\ params.sourceNetwork = "" /\ params.destinationNetwork = ""
    /\ params.to.prefix0x /\ params.to.length = 40
    /\ prepareRequests[1].sourceNetwork = "solana"
    /\ prepareRequests[1].destinationNetwork = "solana"

----------------------------------------------------------------------------
\* Properties of pay() (continued).

\* A positive number in one of the documented formats: "$10", "10.50",
\* "10 USDC".
DocumentedAmount ==
    /\ params.amount.body = "num"
    /\ ~params.amount.neg
    /\ params.amount.mag > 0

\* C16 as stated: an amount in a documented format is never rejected as an
\* invalid amount, and fee result, signed amount and settlement amount are
\* those of the undecorated number.
C16_DocumentedFormatsAccepted ==
    DocumentedAmount =>
        /\ pc = "Failed" => result.error.cause \notin {"amountFormat", "feeAmount"}
        /\ FeesCalculated =>
              calculatedFees.grossAmount = toFixed6(params.amount.mag)
        /\ \A k \in 1..Len(payRequests) :
              payRequests[k].amount = toFixed6(params.amount.mag)
        /\ (ModeA /\ SigningDone) =>
              \A k \in 1..Len(facilitatorHeaders) :
                  facilitatorHeaders[k].paymentHeader.value =
                      atomicUnits(StripDecoration(params.amount))

----------------------------------------------------------------------------
\* The constructor, followed by one pay() call on the constructed client.

\* An optional boolean of UplinkConfig: left out, false or true.
Flags == {"undefined", "false", "true"}
Truthy(flag) == flag = "true"

\* maxRetries: config.maxRetries ?? 3
DefaultMaxRetries == 3

\* UplinkConfig as the constructor reads it; network "" is a network left
\* out, maxRetries <<>> a maxRetries left out and <<n>> the number n.
UplinkConfigs ==
    [apiKey : {"", "key"}, createAtaFeeAcceptance : Flags,
     minimumCrosschainFeeAcceptance : Flags, privateKey : BOOLEAN,
     network : {""} \cup Networks, maxRetries : {<<>>, <<1>>}]

\* Mutant: the cross-chain acknowledgement is not required.
ConstructorError_noCrosschainCheck(cfg) ==
    IF cfg.apiKey = "" THEN "apiKey"
    ELSE IF ~Truthy(cfg.createAtaFeeAcceptance) THEN "createAtaFeeAcceptance"
    ELSE "none"

\* The validation of the constructor: what it throws for, or "none".
ConstructorError(cfg) ==
    IF cfg.apiKey = "" THEN "apiKey"
    ELSE IF ~Truthy(cfg.createAtaFeeAcceptance) THEN "createAtaFeeAcceptance"
    ELSE IF ~Truthy(cfg.minimumCrosschainFeeAcceptance)
         THEN "minimumCrosschainFeeAcceptance"
    ELSE "none"

ConstructorInit ==
    /\ config \in UplinkConfigs
    /\ params \in [to : Addresses,
                   amount : {AmountString(FALSE, FALSE, 20100000, FALSE)},
                   paymentHeader : {NoHeader, ProvidedHeader},
                   sourceNetwork : {""}, destinationNetwork : {""},
                   idempotencyKey : {""}, priority : {""},
                   metadata : {NoMetadata}]
    /\ pc = "Constructing"
    /\ prepareRequests = <<>>
    /\ prepareData = NoPrepareData
    /\ calculatedFees = NoFees
    /\ rankingRequests = 0
    /\ facilitators = <<>>
    /\ fIdx = 0
    /\ signerCalls = <<>>
    /\ destAtaInfo = "unknown"
    /\ facilitatorHeaders = <<>>
    /\ i = 0
    /\ lastError = NoError
    /\ inFlight = 0
    /\ payRequests = <<>>
    /\ lastResponse = [kind |-> "none", txHash |-> <<>>]
    /\ settled = <<>>
    /\ result = [kind |-> "pending", txHash |-> <<>>, error |-> NoError]
    /\ history = <<>>
    /\ suspended = NoCall
    /\ ExamplesIdle

\* new Uplink(config): throws, or stores the configuration with the network
\* defaulted to base and creates the signer of that network.
Construct ==
    /\ pc = "Constructing"
    /\ IF ConstructorError(config) # "none"
       THEN /\ Throw(Error("ValidationError", ConstructorError(config), 0))
            /\ UNCHANGED config
       ELSE /\ config' = [config EXCEPT
                           !.network = IF @ = "" THEN "base" ELSE @,
                           !.maxRetries = IF @ = <<>> THEN DefaultMaxRetries
                                          ELSE @[1]]
            /\ pc' = "Idle"
            /\ UNCHANGED result
    /\ UNCHANGED <<examples, suspended, history, params, prepareRequests, prepareData, calculatedFees,
                   rankingRequests, facilitators, fIdx, signerCalls, destAtaInfo,
                   facilitatorHeaders, i, lastError, inFlight, payRequests,
                   lastResponse, settled>>

ConstructorNext ==
    \/ Construct
    \/ Next

ConstructorSpec == ConstructorInit /\ [][ConstructorNext]_vars

Acknowledged ==
    /\ config.apiKey # ""
    /\ config.createAtaFeeAcceptance = "true"
    /\ config.minimumCrosschainFeeAcceptance = "true"

ConstructorFailed ==
    /\ pc = "Failed"
    /\ result.error.type = "ValidationError"
    /\ result.error.cause \in {"apiKey", "createAtaFeeAcceptance",
                               "minimumCrosschainFeeAcceptance"}

\* C17: construction succeeds exactly when apiKey is non-empty and both fee
\* acknowledgements are true; otherwise the constructor throws a
\* ValidationError, and then nothing is requested, signed or paid.
C17_ConstructorRequiresAcknowledgements ==
    pc # "Constructing" =>
        IF Acknowledged
        THEN ~ConstructorFailed
        ELSE /\ ConstructorFailed
             /\ prepareRequests = <<>>
             /\ rankingRequests = 0
             /\ signerCalls = <<>>
             /\ payRequests = <<>>

\* An API key and the account-creation acknowledgement, but the cross-chain
\* acknowledgement left out: the constructor throws.
C17_Witness ==
    /\ ConstructorFailed
    /\ config.apiKey = "key"
    /\ config.createAtaFeeAcceptance = "true"
    /\ config.minimumCrosschainFeeAcceptance = "undefined"
    /\ result.error.cause = "minimumCrosschainFeeAcceptance"

\* C18: without a paymentHeader and without a private key pay() fails with
\* a ValidationError before any request is made; with a paymentHeader no
\* signer is invoked and no ranking fetched, whether or not a private key
\* is configured, and the only settlement request carries exactly the
\* provided header.
C18_ModeValidation ==
    /\ (ModeA /\ ~config.privateKey /\ pc # "Idle") =>
          /\ pc = "Failed"
          /\ result.error = Error("ValidationError", "mode", 0)
          /\ prepareRequests = <<>>
          /\ rankingRequests = 0
          /\ payRequests = <<>>
    /\ ~ModeA =>
          /\ signerCalls = <<>>
          /\ rankingRequests = 0
          /\ Len(payRequests) <= 1
          /\ \A k \in 1..Len(payRequests) :
                payRequests[k].paymentHeader = params.paymentHeader
          /\ SigningDone => Len(facilitatorHeaders) = 1

\* Mode B on a client that has a private key: the provided header settled.
C18_Witness ==
    /\ ~ModeA
    /\ config.privateKey
    /\ pc = "Succeeded"
    /\ Len(payRequests) = 1
    /\ payRequests[1].paymentHeader = ProvidedHeader
    /\ signerCalls = <<>>

----------------------------------------------------------------------------
\* Two pay() calls with the same parameters against the same aggregator.

\* Every client and destination of Init, paying "2.01" under a key.
RetryInit ==
    /\ Init
    /\ params.priority = ""
    /\ params.amount = AmountString(FALSE, FALSE, 20100000, FALSE)
    /\ params.idempotencyKey = "key"
    /\ params.sourceNetwork = ""

\* The caller calls pay() a second time with the same parameters.  The
\* locals of pay() start afresh; the aggregator keeps what it settled.
PayAgain ==
    /\ pc \in {"Succeeded", "Failed"}
    /\ history = <<>>
    /\ history' = Append(history, result)
    /\ pc' = "Idle"
    /\ prepareRequests' = <<>>
    /\ prepareData' = NoPrepareData
    /\ calculatedFees' = NoFees
    /\ rankingRequests' = 0
    /\ facilitators' = <<>>
    /\ fIdx' = 0
    /\ signerCalls' = <<>>
    /\ destAtaInfo' = "unknown"
    /\ facilitatorHeaders' = <<>>
    /\ i' = 0
    /\ lastError' = NoError
    /\ payRequests' = <<>>
    /\ lastResponse' = [kind |-> "none", txHash |-> <<>>]
    /\ result' = [kind |-> "pending", txHash |-> <<>>, error |-> NoError]
    /\ UNCHANGED <<examples, suspended, config, params, inFlight, settled>>

RetryNext ==
    \/ Next
    \/ PayAgain

RetrySpec == RetryInit /\ [][RetryNext]_vars

\* C20: with an idempotency key, the two calls together cause at most one
\* settlement, every call that returns a hash returns the hash of that
\* settlement, so two returned hashes are equal; also when the first call
\* failed after its settlement had been accepted.
C20_IdempotentRetry ==
    params.idempotencyKey # "" =>
        /\ Len(settled) <= 1
        /\ result.kind = "txHash" =>
              /\ settled # <<>>
              /\ result.txHash = <<"tx", settled[1]>>
        /\ (history # <<>> /\ history[1].kind = "txHash" /\ result.kind = "txHash")
              => result.txHash = history[1].txHash

\* The first call timed out on a settlement the aggregator had accepted and
\* failed with a NetworkError; the second call returns that settlement.
C20_Witness ==
    /\ params.idempotencyKey = "key"
    /\ history # <<>>
    /\ history[1].kind = "error"
    /\ history[1].error.type = "NetworkError"
    /\ settled = << <<1, 1>> >>
    /\ pc = "Succeeded"
    /\ result.txHash = <<"tx", <<1, 1>>>>

----------------------------------------------------------------------------
\* Properties of pay() on a constructed client.

Constructed == pc # "Constructing" /\ ~ConstructorFailed

\* C21 as stated: the number of settlement requests of a pay() call never
\* exceeds the client's maxRetries.
C21_AttemptsWithinMaxRetries ==
    Constructed => Len(payRequests) <= config.maxRetries

----------------------------------------------------------------------------
\* The state machine of a pay() call.

\* The state of the specification's machine that a position belongs to.
Phase(position) ==
    CASE position \in {"Ranking", "SignLoop", "SignFallbackTry",
                       "SignFallbackCatch", "SignEVM"} -> "Signing"
      [] position \in {"Submitting", "AwaitPay"} -> "Submitting"
      [] OTHER -> position

\* The steps of the machine: forward by one state, into Failed, or from
\* Submitting(i) to Submitting(i + 1); with a provided header nothing is
\* signed and FeeChecked is followed by Submitting(1).
MachineStep ==
    LET from == Phase(pc)
        to == Phase(pc')
    IN  \/ from = to /\ from # "Submitting"
        \/ from = "Submitting" /\ to = "Submitting" /\ i' \in {i, i + 1}
        \/ from = "Idle" /\ to \in {"Preparing", "Failed"}
        \/ from = "Preparing" /\ to \in {"FeeChecked", "Failed"}
        \/ from = "FeeChecked" /\ to \in {"Signing", "Failed"}
        \/ from = "FeeChecked" /\ to = "Submitting" /\ ~ModeA /\ i' = 1
        \/ from = "Signing" /\ to = "Failed"
        \/ from = "Signing" /\ to = "Submitting" /\ i' = 1
        \/ from = "Submitting" /\ to \in {"Succeeded", "Failed"}

\* Requests and signer calls happen in the state they belong to.
MachineOrder ==
    /\ prepareRequests' # prepareRequests => Phase(pc) = "Idle"
    /\ rankingRequests' # rankingRequests
          => Phase(pc) = "FeeChecked" /\ signerCalls = <<>>
    /\ signerCalls' # signerCalls
          => Phase(pc) = "Signing" /\ payRequests = <<>>
    /\ payRequests' # payRequests
          => Phase(pc) = "Submitting" /\ signerCalls' = signerCalls

MachineState ==
    /\ Len(prepareRequests) <= 1
    /\ Phase(pc) \in {"FeeChecked", "Signing", "Submitting", "Succeeded"}
          => /\ Len(prepareRequests) = 1
             /\ prepareData # NoPrepareData
             /\ calculatedFees # NoFees
    /\ Phase(pc) \in {"Idle", "Preparing"}
          => prepareData = NoPrepareData /\ rankingRequests = 0 /\ signerCalls = <<>>
    /\ Phase(pc) \in {"Idle", "Preparing", "FeeChecked", "Signing"}
          => payRequests = <<>>
    /\ pc = "Succeeded" => result.kind = "txHash" /\ result.txHash # <<>>
    /\ pc = "Failed" => result.kind = "error" /\ result.error # NoError
    /\ ~Finished => result.kind = "pending"

\* C22: a pay() call moves through Idle, Preparing, FeeChecked, Signing,
\* Submitting(1), Submitting(2), ... in that order, leaving the order only
\* for Failed or Succeeded; there is one prepare-payment request, and it has
\* succeeded before the ranking is fetched or anything is signed; ranking
\* and signing are over before the first settlement request; Succeeded
\* holds a transaction hash and Failed an error.
C22_StateMachine == []MachineState /\ [][MachineStep /\ MachineOrder]_vars

\* Prepared, ranked, signed twice, first settlement rejected, second
\* settled.
C22_Witness ==
    /\ pc = "Succeeded"
    /\ Len(prepareRequests) = 1
    /\ rankingRequests = 1
    /\ Len(signerCalls) = 2
    /\ Len(payRequests) = 2
    /\ i = 2

\* C23: every pay() call ends, with a transaction hash or an error, after at
\* most one settlement request per header, and the loop index never goes
\* back.
C23_Terminates ==
    /\ <>Finished
    /\ [](SigningDone => Len(payRequests) <= Len(facilitatorHeaders))
    /\ [][i' >= i]_vars
    /\ [](Finished => result.kind \in {"txHash", "error"})

\* A call that ended after as many requests as it had headers: three.
C23_Witness ==
    /\ Finished
    /\ Len(facilitatorHeaders) = 3
    /\ Len(payRequests) = 3
    /\ i = 3

----------------------------------------------------------------------------
\* Signing for the ranked facilitators.

\* The headers built so far stay, in their places, over a step.
HeadersKept ==
    /\ Len(facilitatorHeaders') >= Len(facilitatorHeaders)
    /\ SubSeq(facilitatorHeaders', 1, Len(facilitatorHeaders)) = facilitatorHeaders

\* C24 as stated: a signer call for one ranked facilitator, failed or not,
\* leaves the headers already built in the list, and the loop goes on to
\* the remaining facilitators that expose a fee payer; no step of signing
\* takes a built header away.
C24_SigningFailureIsLocal ==
    [][/\ Phase(pc) = "Signing" => HeadersKept
       /\ pc = "SignLoop"
             => /\ pc' \in {"SignLoop", "Submitting"}
                /\ fIdx' = NextToSign(facilitators, fIdx + 1)]_vars

\* The headers of the list that SolanaSigner.signPayment built.
SolanaHeaders ==
    { k \in 1..Len(facilitatorHeaders) :
          facilitatorHeaders[k].paymentHeader.kind = "solana" }

\* C25: the transaction of every Solana header has the compute-unit limit,
\* the compute-unit price, the creation of the recipient's token account
\* exactly when that account was missing, and the transfer, in this order
\* and nothing else.
C25_InstructionLayout ==
    \A k \in SolanaHeaders :
        LET ins == facilitatorHeaders[k].paymentHeader.instructions
        IN  /\ destAtaInfo \in {"exists", "missing"}
            /\ destAtaInfo = "missing"
                  => ins = <<"computeLimit", "computePrice", "createAta",
                             "transferChecked">>
            /\ destAtaInfo = "exists"
                  => ins = <<"computeLimit", "computePrice", "transferChecked">>
            /\ ins[1] = "computeLimit" /\ ins[2] = "computePrice"
            /\ ins[Len(ins)] = "transferChecked"

\* Two headers signed while the recipient's token account was missing.
C25_Witness ==
    /\ destAtaInfo = "missing"
    /\ Cardinality(SolanaHeaders) = 2
    /\ Len(facilitatorHeaders[1].paymentHeader.instructions) = 4

----------------------------------------------------------------------------
\* Two pay() calls on one client.  JavaScript runs a call until its next
\* await; there the other call may run.  Each call has its own locals and
\* its own PaymentParams; the client's fields, the aggregator and the chain
\* are the same for both.

\* Turns the two calls take after the second has started.
MaxSwitches == 2

\* Longest ranking either of the two calls is answered with.
MaxConcurrentRanked == 1

\* Mutant: the header list is a field of the client.
CallLocal_headersOnClient ==
    {"params", "pc", "prepareRequests", "prepareData", "calculatedFees",
     "rankingRequests", "facilitators", "fIdx", "signerCalls", "destAtaInfo",
     "i", "lastError", "inFlight", "payRequests", "lastResponse", "result"}

\* What belongs to one invocation: the parameter object and the const and
\* let bindings of pay(), preparePayment and _signPayment, with the requests
\* the invocation made.
CallLocal ==
    {"params", "pc", "prepareRequests", "prepareData", "calculatedFees",
     "rankingRequests", "facilitators", "fIdx", "signerCalls", "destAtaInfo",
     "facilitatorHeaders", "i", "lastError", "inFlight", "payRequests",
     "lastResponse", "result"}

\* The running call as a record.
Context(call, switches) ==
    [call |-> call, switches |-> switches, params |-> params, pc |-> pc,
     prepareRequests |-> prepareRequests, prepareData |-> prepareData,
     calculatedFees |-> calculatedFees, rankingRequests |-> rankingRequests,
     facilitators |-> facilitators, fIdx |-> fIdx, signerCalls |-> signerCalls,
     destAtaInfo |-> destAtaInfo, facilitatorHeaders |-> facilitatorHeaders, i |-> i, lastError |-> lastError,
     inFlight |-> inFlight, payRequests |-> payRequests,
     lastResponse |-> lastResponse, result |-> result]

\* The positions at which pay() is waiting: for the prepare-payment fetch,
\* for the ranking fetch, for a signer, for the settlement fetch.
AtAwait ==
    pc \in {"Preparing", "Ranking", "SignLoop", "SignFallbackTry",
            "SignFallbackCatch", "SignEVM", "AwaitPay"}

\* What the other call finds in a variable when it runs on.
Resumed(name, mine, theirs) == IF name \in CallLocal THEN theirs ELSE mine

\* The PaymentParams of the second call: another destination, another
\* amount, with or without the idempotency key of the first.
SecondRequests ==
    [to : {Address("0xRecipient", TRUE, 42, FALSE, FALSE)},
     amount : {AmountString(FALSE, FALSE, 2000000, FALSE)},
     paymentHeader : {NoHeader, ProvidedHeader},
     sourceNetwork : {""},
     destinationNetwork : {""},
     idempotencyKey : {"key", "key2"},
     priority : {"speed"},
     metadata : {<<"orderId">>}]

ConcurrentInit ==
    /\ Init
    /\ params.priority = ""
    /\ params.amount = AmountString(FALSE, FALSE, 20100000, FALSE)
    /\ params.idempotencyKey = "key"
    /\ params.sourceNetwork = ""
    /\ params.to = Address("SolRecipient", FALSE, 44, TRUE, FALSE)

\* While the first call waits, the caller calls pay() again.
SecondCall ==
    /\ suspended = NoCall
    /\ AtAwait
    /\ suspended' = Context(1, 0)
    /\ params' \in SecondRequests
    /\ pc' = "Idle"
    /\ prepareRequests' = <<>>
    /\ prepareData' = NoPrepareData
    /\ calculatedFees' = NoFees
    /\ rankingRequests' = 0
    /\ facilitators' = <<>>
    /\ fIdx' = 0
    /\ signerCalls' = <<>>
    /\ destAtaInfo' = "unknown"
    /\ facilitatorHeaders' = <<>>
    /\ i' = 0
    /\ lastError' = NoError
    /\ inFlight' = 0
    /\ payRequests' = <<>>
    /\ lastResponse' = [kind |-> "none", txHash |-> <<>>]
    /\ result' = [kind |-> "pending", txHash |-> <<>>, error |-> NoError]
    /\ UNCHANGED <<examples, config, history, settled>>

\* The running call waits or has ended, and the other call runs on.
Switch ==
    /\ suspended # NoCall
    /\ suspended.switches < MaxSwitches
    /\ AtAwait \/ pc \in {"Succeeded", "Failed"}
    /\ suspended.pc \notin {"Succeeded", "Failed"}
    /\ suspended' = Context(3 - suspended.call, suspended.switches + 1)
    /\ params' = Resumed("params", params, suspended.params)
    /\ pc' = Resumed("pc", pc, suspended.pc)
    /\ prepareRequests' =
           Resumed("prepareRequests", prepareRequests, suspended.prepareRequests)
    /\ prepareData' = Resumed("prepareData", prepareData, suspended.prepareData)
    /\ calculatedFees' =
           Resumed("calculatedFees", calculatedFees, suspended.calculatedFees)
    /\ rankingRequests' =
           Resumed("rankingRequests", rankingRequests, suspended.rankingRequests)
    /\ facilitators' = Resumed("facilitators", facilitators, suspended.facilitators)
    /\ fIdx' = Resumed("fIdx", fIdx, suspended.fIdx)
    /\ signerCalls' = Resumed("signerCalls", signerCalls, suspended.signerCalls)
    /\ destAtaInfo' = Resumed("destAtaInfo", destAtaInfo, suspended.destAtaInfo)
    /\ facilitatorHeaders' =
           Resumed("facilitatorHeaders", facilitatorHeaders,
                   suspended.facilitatorHeaders)
    /\ i' = Resumed("i", i, suspended.i)
    /\ lastError' = Resumed("lastError", lastError, suspended.lastError)
    /\ inFlight' = Resumed("inFlight", inFlight, suspended.inFlight)
    /\ payRequests' = Resumed("payRequests", payRequests, suspended.payRequests)
    /\ lastResponse' = Resumed("lastResponse", lastResponse, suspended.lastResponse)
    /\ result' = Resumed("result", result, suspended.result)
    /\ UNCHANGED <<examples, config, history, settled>>

\* The rankings of the two calls are short.
ConcurrentNext ==
    \/ Next /\ Len(facilitators') <= MaxConcurrentRanked
    \/ SecondCall
    \/ Switch

ConcurrentSpec == ConcurrentInit /\ [][ConcurrentNext]_vars

\* The PaymentParams of call c, once both calls exist.
RequestOf(c) == IF suspended.call = c THEN suspended.params ELSE params

\* Everything a call sent, signed and returned follows from its own
\* PaymentParams and the responses it received itself.
CallConsistent(ctx) ==
    /\ \A k \in 1..Len(ctx.prepareRequests) :
           /\ ctx.prepareRequests[k].to = ctx.params.to
           /\ ctx.prepareRequests[k].amount = parseAmount(ctx.params.amount).value
    /\ \A k \in 1..Len(ctx.signerCalls) :
           /\ ctx.signerCalls[k].to = ctx.prepareData.signToAddress
           /\ ctx.signerCalls[k].amount = ctx.params.amount
    /\ \A k \in 1..Len(ctx.facilitatorHeaders) :
           LET header == ctx.facilitatorHeaders[k].paymentHeader
           IN  IF ctx.params.paymentHeader.kind # "none"
               THEN header = ctx.params.paymentHeader
               ELSE /\ header.to = ctx.prepareData.signToAddress
                    /\ header.value = atomicUnits(ctx.params.amount)
                    /\ header.fresh \in 1..Len(ctx.signerCalls)
    /\ Len(ctx.payRequests) <= Len(ctx.facilitatorHeaders)
    /\ \A k \in 1..Len(ctx.payRequests) :
           /\ ctx.payRequests[k].to = ctx.params.to
           /\ ctx.payRequests[k].amount = ctx.calculatedFees.grossAmount
           /\ ctx.payRequests[k].idempotencyKey = ctx.params.idempotencyKey
           /\ ctx.payRequests[k].bridgeOrderId = ctx.prepareData.bridgeOrderId
           /\ ctx.payRequests[k].metadata = ctx.params.metadata
           /\ ctx.payRequests[k].paymentHeader
                  = ctx.facilitatorHeaders[k].paymentHeader
    /\ ctx.pc = "Succeeded"
          => /\ ctx.lastResponse.kind = "success"
             /\ ctx.result.txHash = ctx.lastResponse.txHash
    /\ ctx.pc = "Failed" /\ ctx.payRequests # <<>>
          => ctx.result.error \in AttemptErrors(ctx.lastResponse.kind, ctx.i)
                                      \cup {FinalError(ctx.lastError)}

\* No step changes the client's configuration or either call's
\* PaymentParams, and a step of the running call changes nothing of the
\* waiting one.
ConcurrentFrame ==
    /\ config' = config
    /\ suspended = NoCall /\ suspended' = NoCall => params' = params
    /\ suspended # NoCall
          => /\ suspended' # NoCall
             /\ \A c \in {1, 2} : RequestOf(c)' = RequestOf(c)
             /\ suspended'.call = suspended.call => suspended' = suspended

\* C26: pay() changes neither the client nor the caller's PaymentParams,
\* and two calls on one client that run interleaved at their awaits do not
\* touch each other: what each call requests, signs, submits and returns
\* follows from its own parameters and its own responses.
C26_NoInterference ==
    /\ [][ConcurrentFrame]_vars
    /\ [](CallConsistent(Context(0, 0)))
    /\ [](suspended # NoCall => CallConsistent(suspended))

\* Both calls signed and settled, having run in turns.
C26_Witness ==
    /\ suspended # NoCall
    /\ suspended.switches = MaxSwitches
    /\ pc = "Succeeded" /\ suspended.pc = "Succeeded"
    /\ signerCalls # <<>> /\ suspended.signerCalls # <<>>
    /\ result.txHash # suspended.result.txHash

----------------------------------------------------------------------------
\* Failed preparation.

\* Nothing of the steps after preparation has happened.
StoppedAtPreparation ==
    /\ pc = "Failed"
    /\ prepareData = NoPrepareData
    /\ calculatedFees = NoFees
    /\ rankingRequests = 0
    /\ signerCalls = <<>>
    /\ facilitatorHeaders = <<>>
    /\ payRequests = <<>>

\* C27 as stated: 401 gives AuthenticationError, every other non-success
\* response PaymentError, a timeout or connectivity failure NetworkError,
\* and the call stops.
C27_AsStated ==
    PreparationFailed =>
        /\ StoppedAtPreparation
        /\ result.error.cause = "prepare401"
              => result.error.type = "AuthenticationError"
        /\ result.error.cause \in {"prepareRejected", "prepareErrorPage"}
              => result.error.type = "PaymentError"
        /\ result.error.cause \in {"prepareTimeout", "prepareNetwork"}
              => result.error.type = "NetworkError"

\* C27: 401 gives AuthenticationError, every other non-success response
\* with a JSON body PaymentError, a timeout, a connectivity failure or a
\* response whose body is not JSON NetworkError, and the call stops: no fee
\* result, no ranking request, no signer call, no settlement request.
C27_PreparationFailure ==
    PreparationFailed =>
        /\ StoppedAtPreparation
        /\ result.error.cause = "prepare401"
              => result.error.type = "AuthenticationError"
        /\ result.error.cause = "prepareRejected"
              => result.error.type = "PaymentError"
        /\ result.error.cause \in {"prepareTimeout", "prepareNetwork",
                                   "prepareErrorPage", "prepareBadBody"}
              => result.error.type = "NetworkError"

\* The prepare-payment request was answered with 401.
C27_Witness ==
    /\ pc = "Failed"
    /\ Len(prepareRequests) = 1
    /\ result.error.cause = "prepare401"
    /\ result.error.type = "AuthenticationError"

----------------------------------------------------------------------------
\* Where is signed to, and what the settlement request names.

\* C28: in Mode A every signer call and every header is to the signToAddress
\* of the preparation result; every settlement request names the caller's
\* destination and carries the bridge order id of the preparation result
\* exactly when there is one.
C28_SignToAndDestination ==
    /\ ModeA =>
          /\ \A k \in 1..Len(signerCalls) :
                 signerCalls[k].to = prepareData.signToAddress
          /\ \A k \in 1..Len(facilitatorHeaders) :
                 facilitatorHeaders[k].paymentHeader.to = prepareData.signToAddress
    /\ \A k \in 1..Len(payRequests) :
          /\ payRequests[k].to = params.to
          /\ payRequests[k].bridgeOrderId # "" <=> prepareData.bridgeOrderId # ""
          /\ payRequests[k].bridgeOrderId = prepareData.bridgeOrderId

\* A cross-chain Mode A call that signed two headers to the bridge deposit
\* address and sent both with the order id.
C28_Witness ==
    /\ ModeA
    /\ prepareData.bridgeOrderId = "order"
    /\ prepareData.signToAddress = "bridgeDeposit"
    /\ Len(facilitatorHeaders) = 2
    /\ Len(payRequests) = 2
    /\ payRequests[2].to = params.to

\* C29 as stated: when Mode A signing has completed, the header list is not
\* empty, and a call that fails after signing has sent a settlement request.
C29_HeadersNonEmpty ==
    ModeA /\ SigningDone =>
        /\ facilitatorHeaders # <<>>
        /\ pc = "Failed" => payRequests # <<>>

----------------------------------------------------------------------------
\* The settlement requests of one call.

\* A request without its payment header.
Unsigned(request) == [request EXCEPT !.paymentHeader = <<>>]

\* C30: the settlement requests of a pay() call have the same destination,
\* amount, networks, token, priority, idempotency key, metadata, bridge
\* order id and fee breakdown, which are those of the call; two requests of
\* a call differ in the payment header, and in nothing else.
C30_SamePayload ==
    \A j \in 1..Len(payRequests) :
        /\ payRequests[j].to = params.to
        /\ payRequests[j].amount = calculatedFees.grossAmount
        /\ payRequests[j].sourceNetwork = prepareData.sourceNetwork
        /\ payRequests[j].destinationNetwork = prepareData.destinationNetwork
        /\ payRequests[j].token = "USDC"
        /\ payRequests[j].priority
               = IF params.priority = "" THEN "balanced" ELSE params.priority
        /\ payRequests[j].idempotencyKey = params.idempotencyKey
        /\ payRequests[j].metadata = params.metadata
        /\ payRequests[j].bridgeOrderId = prepareData.bridgeOrderId
        /\ payRequests[j].calculatedFees.totalFees = calculatedFees.totalFees
        /\ \A k \in 1..Len(payRequests) :
               /\ Unsigned(payRequests[j]) = Unsigned(payRequests[k])
               /\ j # k => payRequests[j].paymentHeader # payRequests[k].paymentHeader

\* Three requests of a call with priority, metadata and idempotency key.
C30_Witness ==
    /\ Len(payRequests) = 3
    /\ params.priority = "speed"
    /\ params.metadata # NoMetadata
    /\ params.idempotencyKey = "key"
    /\ payRequests[3].priority = "speed"

----------------------------------------------------------------------------
\* The amounts of one call.

\* The amount of the prepare-payment request, in atomic units.
PreparedAmount == prepareRequests[1].amount.mag \div 10

\* C31 as stated: the amount sent to prepare-payment, the amount signed and
\* the amount of every settlement request are the same value.
C31_OneAmount ==
    \A k \in 1..Len(payRequests) :
        /\ payRequests[k].amount = PreparedAmount
        /\ ModeA => payRequests[k].paymentHeader.value = PreparedAmount

----------------------------------------------------------------------------
\* Signers and the networks they sign for.

\* C32 as stated: a client has at most one signer, the one of its
\* configured network; a Mode A payment from a network of the other family
\* fails with a ValidationError before anything is submitted; and every
\* signed header is for the chain its envelope names.
C32_SignerMatchesNetwork ==
    /\ ~(HasSolanaSigner(config) /\ HasEVMSigner(config))
    /\ HasSolanaSigner(config) => config.privateKey /\ config.network = "solana"
    /\ HasEVMSigner(config) => config.privateKey /\ config.network # "solana"
    /\ (ModeA /\ Phase(pc) \in {"Signing", "Submitting", "Succeeded"})
          => IF IsSolana(prepareData.sourceNetwork)
             THEN HasSolanaSigner(config) ELSE HasEVMSigner(config)
    /\ pc = "Failed" /\ result.error.cause \in {"solanaSigner", "evmSigner"}
          => /\ result.error.type = "ValidationError"
             /\ signerCalls = <<>>
             /\ payRequests = <<>>
    /\ ModeA =>
          \A k \in 1..Len(facilitatorHeaders) :
              facilitatorHeaders[k].paymentHeader.chain
                  = facilitatorHeaders[k].paymentHeader.network

\* C33 as stated: a signed Solana transaction creates the recipient's token
\* account exactly when the fee calculation charged the creation fee.
C33_CreationMatchesFee ==
    ModeA =>
        \A k \in SolanaHeaders :
            LET ins == facilitatorHeaders[k].paymentHeader.instructions
            IN  (\E n \in 1..Len(ins) : ins[n] = "createAta")
                    <=> calculatedFees.ataFee > 0

----------------------------------------------------------------------------
\* The errors of pay().

\* The names of errors that are not UplinkError subclasses: a rejected
\* fetch, the DOMException of a timeout, a body that is not JSON.
RawErrors == {"TypeError", "AbortError", "TimeoutError", "SyntaxError"}

\* C34: a pay() call that failed holds one of the five typed errors, also
\* when the last thing that went wrong was a rejected fetch, a timeout, an
\* unparsable body or a signing exception; and a call that returned a hash
\* returned the hash of a success response.
C34_TypedErrors ==
    /\ pc = "Failed"
          => /\ result.kind = "error"
             /\ result.error.type \in {"ValidationError", "AuthenticationError",
                                       "PaymentError", "NetworkError",
                                       "SigningError"}
             /\ result.error.type \notin RawErrors
    /\ (/\ pc = "Failed"
        /\ lastError.type \in RawErrors
        /\ lastError.attempt = i)
          => result.error.type = "NetworkError"
    /\ pc = "Succeeded"
          => /\ result.kind = "txHash"
             /\ lastResponse.kind = "success"
             /\ result.txHash = lastResponse.txHash
             /\ result.txHash # <<>>

\* The only header was answered with a body that is not JSON: the
\* SyntaxError surfaces as a NetworkError.
C34_Witness ==
    /\ pc = "Failed"
    /\ lastError.type = "SyntaxError"
    /\ lastResponse.kind = "badBody"
    /\ result.error.type = "NetworkError"

\* The attempts an error of the failover loop reports.  Its message quotes
\* the reason of the attempt that threw it (`Payment failed: ${reason}`,
\* 394) or the message of lastError (445); the name of the facilitator and
\* the errors of the earlier attempts go to console.log only (393, 423).
AttemptsReported(e) == IF e.attempt = 0 THEN {} ELSE {e.attempt}

\* C35: the error of a pay() call that failed with every facilitator
\* reports every facilitator that was tried, not only the last attempt.
C35_ErrorReportsAllAttempts ==
    (/\ pc = "Failed"
     /\ Len(payRequests) > 0
     /\ Len(payRequests) = Len(facilitatorHeaders)
     /\ Disposition(lastResponse.kind) = "retry")
        => AttemptsReported(result.error) = 1..Len(payRequests)

----------------------------------------------------------------------------
\* The example programs of examples/server-side.  Each keeps its state in
\* memory and calls uplink.pay(); the call is taken as a promise that is
\* resolved with a hash or rejected with an error some time later.

\* The client of the example is constructed and no pay() call of the
\* caller modelled above is running.
ClientIdle ==
    /\ config = [privateKey |-> TRUE, network |-> "base"]
    /\ params = [to |-> Address("0xRecipient", TRUE, 42, FALSE, FALSE),
                 amount |-> AmountString(FALSE, FALSE, 10000000, FALSE),
                 paymentHeader |-> NoHeader,
                 sourceNetwork |-> "",
                 destinationNetwork |-> "",
                 idempotencyKey |-> "",
                 priority |-> "",
                 metadata |-> NoMetadata]
    /\ pc = "Idle"
    /\ prepareRequests = <<>>
    /\ prepareData = NoPrepareData
    /\ calculatedFees = NoFees
    /\ rankingRequests = 0
    /\ facilitators = <<>>
    /\ fIdx = 0
    /\ signerCalls = <<>>
    /\ destAtaInfo = "unknown"
    /\ facilitatorHeaders = <<>>
    /\ i = 0
    /\ lastError = NoError
    /\ inFlight = 0
    /\ payRequests = <<>>
    /\ lastResponse = [kind |-> "none", txHash |-> <<>>]
    /\ settled = <<>>
    /\ result = [kind |-> "pending", txHash |-> <<>>, error |-> NoError]
    /\ history = <<>>
    /\ suspended = NoCall

\* The variables of the pay() call modelled above.
client == <<config, params, pc, prepareRequests, prepareData, calculatedFees,
            rankingRequests, facilitators, fIdx, signerCalls, destAtaInfo,
            facilitatorHeaders, i, lastError, inFlight, payRequests,
            lastResponse, settled, result, history, suspended>>

\* detectNetwork of the examples: '0x...' is Base, 32 to 44 characters is
\* Solana, anything else throws.
detectNetwork(address) ==
    IF address.prefix0x THEN "base"
    ELSE IF address.length >= 32 /\ address.length <= 44 THEN "solana"
    ELSE "throw"

\* A map with one entry set.
MapSet(map, key, value) ==
    [k \in DOMAIN map \cup {key} |-> IF k = key THEN value ELSE map[k]]

\* uplink.pay() is called: the promise is pending.
PayCall(caller, key) == [caller |-> caller, idempotencyKey |-> key, state |-> "pending"]

\* The promise of call c is settled.
Settle(c, state) == [uplinkCalls EXCEPT ![c].state = state]

\* The pending call of `caller`, 0 when it has none.
PendingCall(caller) ==
    IF \E c \in 1..Len(uplinkCalls) :
           uplinkCalls[c].caller = caller /\ uplinkCalls[c].state = "pending"
    THEN CHOOSE c \in 1..Len(uplinkCalls) :
           uplinkCalls[c].caller = caller /\ uplinkCalls[c].state = "pending"
    ELSE 0

----------------------------------------------------------------------------
\* The production server (Express): POST /payments and
\* POST /payments/crosschain.  A handler runs without interruption from its
\* first statement to its await of uplink.pay(), and from the settlement of
\* that promise to its response.

\* Largest number of POST requests the server receives.
MaxRequests == 3

OrderIds == {"order-1", "order-2"}

NoRecipient == Address("", FALSE, 0, FALSE, FALSE)

\* The request bodies: orderId, recipient or amount may be missing, the
\* recipient may be an address of neither family.
Bodies ==
    [orderId : {""} \cup OrderIds,
     recipient : {NoRecipient,
                  Address("0xRecipient", TRUE, 42, FALSE, FALSE),
                  Address("SolRecipient", FALSE, 44, TRUE, FALSE),
                  Address("bob", FALSE, 3, FALSE, FALSE)},
     amount : {"", "1.00"},
     sourceNetwork : {""},
     destinationNetwork : {""}]

\* The bodies of POST /payments/crosschain.
CrosschainBodies ==
    [orderId : {""} \cup OrderIds,
     recipient : {Address("SolRecipient", FALSE, 44, TRUE, FALSE)},
     amount : {"1.00"},
     sourceNetwork : {"base", "ethereum"},
     destinationNetwork : {"solana"}]

NoPayment == [id |-> 0, orderId |-> "", network |-> "", status |-> "none",
              txHash |-> <<>>]

NoResponse == [status |-> 0, idempotent |-> FALSE, payment |-> NoPayment]

\* Mutant: only a completed payment counts as existing.
getPaymentByOrderId_completedOnly(orderId) ==
    IF orderId \in DOMAIN paymentsByOrder
          /\ payments[paymentsByOrder[orderId]].status = "completed"
    THEN payments[paymentsByOrder[orderId]]
    ELSE NoPayment

\* getPaymentByOrderId (624-627).
getPaymentByOrderId(orderId) ==
    IF orderId \in DOMAIN paymentsByOrder
    THEN payments[paymentsByOrder[orderId]]
    ELSE NoPayment

\* savePayment (614-619).
savePayment(payment) ==
    /\ payments' = MapSet(payments, payment.id, payment)
    /\ paymentsByOrder' = IF payment.orderId # ""
                          THEN MapSet(paymentsByOrder, payment.orderId, payment.id)
                          ELSE paymentsByOrder

\* The handler responds.
Respond(body, status, idempotent, payment) ==
    requests' = Append(requests,
        [body |-> body, pc |-> "done", paymentId |-> 0,
         response |-> [status |-> status, idempotent |-> idempotent,
                       payment |-> payment]])

\* The part the two handlers share: the idempotency check, the payment
\* record (saved as 'pending', then as 'processing') and the call of
\* uplink.pay().  `network` is "throw" when detectNetwork threw.
StartPayment(body, network) ==
    LET r == Len(requests) + 1
        existingPayment == getPaymentByOrderId(body.orderId)
        payment == [id |-> r, orderId |-> body.orderId, network |-> network,
                    status |-> "processing", txHash |-> <<>>]
    IN  IF existingPayment # NoPayment
        THEN /\ Respond(body, 200, TRUE, existingPayment)
             /\ UNCHANGED <<payments, paymentsByOrder, uplinkCalls>>
        ELSE IF network = "throw"
        THEN /\ Respond(body, 500, FALSE, NoPayment)
             /\ UNCHANGED <<payments, paymentsByOrder, uplinkCalls>>
        ELSE /\ savePayment(payment)
             /\ uplinkCalls' = Append(uplinkCalls, PayCall(r, body.orderId))
             /\ requests' = Append(requests,
                    [body |-> body, pc |-> "awaitPay", paymentId |-> r,
                     response |-> NoResponse])

\* app.post('/payments') up to its await (713-785).
PostPayments ==
    /\ Len(requests) < MaxRequests
    /\ \E body \in Bodies :
         IF body.orderId = "" \/ body.recipient = NoRecipient \/ body.amount = ""
         THEN /\ Respond(body, 400, FALSE, NoPayment)
              /\ UNCHANGED <<payments, paymentsByOrder, uplinkCalls>>
         ELSE StartPayment(body, detectNetwork(body.recipient))
    /\ UNCHANGED <<client, schedules, ticks, now, batchPayments, batch>>

\* app.post('/payments/crosschain') up to its await (851-925).
PostCrosschain ==
    /\ Len(requests) < MaxRequests
    /\ \E body \in CrosschainBodies :
         IF body.orderId = ""
         THEN /\ Respond(body, 400, FALSE, NoPayment)
              /\ UNCHANGED <<payments, paymentsByOrder, uplinkCalls>>
         ELSE IF body.sourceNetwork \notin {"base", "solana"}
                   \/ body.destinationNetwork \notin {"base", "solana"}
         THEN /\ Respond(body, 400, FALSE, NoPayment)
              /\ UNCHANGED <<payments, paymentsByOrder, uplinkCalls>>
         ELSE StartPayment(body, body.sourceNetwork)
    /\ UNCHANGED <<client, schedules, ticks, now, batchPayments, batch>>

\* uplink.pay() resolved: the record is completed and returned (788-805,
\* 927-943).
PaymentCompleted ==
    \E r \in 1..Len(requests) :
        /\ requests[r].pc = "awaitPay"
        /\ LET payment == [payments[requests[r].paymentId] EXCEPT
                              !.status = "completed", !.txHash = <<"tx", r>>]
           IN  /\ savePayment(payment)
               /\ requests' = [requests EXCEPT
                      ![r].pc = "done",
                      ![r].response = [status |-> 200, idempotent |-> FALSE,
                                       payment |-> payment]]
        /\ uplinkCalls' = Settle(PendingCall(r), "resolved")
        /\ UNCHANGED <<client, schedules, ticks, now, batchPayments, batch>>

\* uplink.pay() rejected: the record is failed and returned with status
\* 500 (807-825, 945-958).
PaymentFailed ==
    \E r \in 1..Len(requests) :
        /\ requests[r].pc = "awaitPay"
        /\ LET payment == [payments[requests[r].paymentId] EXCEPT
                              !.status = "failed"]
           IN  /\ savePayment(payment)
               /\ requests' = [requests EXCEPT
                      ![r].pc = "done",
                      ![r].response = [status |-> 500, idempotent |-> FALSE,
                                       payment |-> payment]]
        /\ uplinkCalls' = Settle(PendingCall(r), "rejected")
        /\ UNCHANGED <<client, schedules, ticks, now, batchPayments, batch>>

ServerInit ==
    /\ ClientIdle
    /\ ExamplesIdle

ServerNext ==
    \/ PostPayments
    \/ PostCrosschain
    \/ PaymentCompleted
    \/ PaymentFailed

ServerSpec == ServerInit /\ [][ServerNext]_vars

\* The requests before request r that stored a payment record for orderId.
StoredBefore(r, orderId) ==
    { q \in 1..(r - 1) :
        requests[q].body.orderId = orderId /\ requests[q].paymentId # 0 }

\* A body that passes the validation of its handler.
WellFormed(body) ==
    /\ body.orderId # ""
    /\ body.recipient # NoRecipient
    /\ body.amount # ""
    /\ body.sourceNetwork \in {"", "base", "solana"}
    /\ body.destinationNetwork \in {"", "base", "solana"}

\* C36: under every interleaving of requests, uplink.pay() is called at
\* most once per orderId, and a later request with the required fields
\* whose orderId already has a payment record is answered with that record
\* and starts no payment.
C36_OrderIdIsIdempotencyKey ==
    /\ [](\A o \in OrderIds :
            Cardinality({ c \in 1..Len(uplinkCalls) :
                            uplinkCalls[c].idempotencyKey = o }) <= 1)
    /\ [][Len(requests') = Len(requests) + 1
            => LET r == Len(requests')
                   stored == StoredBefore(r, requests'[r].body.orderId)
               IN  stored # {} /\ WellFormed(requests'[r].body)
                     => /\ requests'[r].pc = "done"
                        /\ requests'[r].paymentId = 0
                        /\ requests'[r].response.status = 200
                        /\ requests'[r].response.idempotent
                        /\ \E q \in stored :
                              requests'[r].response.payment = payments[q]
                        /\ uplinkCalls' = uplinkCalls
                        /\ payments' = payments]_vars

\* A second request for an order arrived while the payment of the first was
\* in flight, and was answered with the record in status 'processing'.
C36_Witness ==
    \E q, r \in 1..Len(requests) :
        /\ q < r
        /\ requests[q].body.orderId = requests[r].body.orderId
        /\ requests[q].pc = "awaitPay"
        /\ requests[r].response.idempotent
        /\ requests[r].response.payment.status = "processing"
        /\ requests[r].response.payment.id = q

----------------------------------------------------------------------------
\* The payment scheduler: setInterval runs checkAndExecutePayments every
\* checkInterval ms and does not wait for the promise of the run before.
\* Time is in ms since main() started; the clock is read at the timer
\* ticks, and what happens between two ticks reads the time of the first.

checkInterval == 10000
schedulerMaxRetries == 3
schedulerRetryDelay == 30000

\* Number of timer ticks considered.
MaxTicks == 2

\* new Date(0), and a date that is not set.
Never == 0
NoDate == -1

\* createSchedule (171-213).
createSchedule(orderId, scheduleType, nextRun, interval, endDate) ==
    [orderId |-> orderId, scheduleType |-> scheduleType, nextRun |-> nextRun,
     interval |-> interval, endDate |-> endDate, status |-> "active",
     lastRun |-> NoDate, totalRuns |-> 0, successfulRuns |-> 0,
     failedRuns |-> 0]

\* The three schedules main() creates (367-418): a payment in 5 s, one
\* every 30 s from 10 s to 2 min, one every 20 s from now on.
MainSchedules ==
    << createSchedule("delayed-001", "once", 5000, 0, NoDate),
       createSchedule("subscription-001", "recurring", 10000, 30000, 120000),
       createSchedule("vesting-001", "recurring", 0, 20000, NoDate) >>

\* calculateNextRun (144-162).
calculateNextRun(schedule) ==
    IF schedule.scheduleType = "once" THEN Never
    ELSE LET from == IF schedule.lastRun # NoDate THEN schedule.lastRun
                     ELSE schedule.nextRun
             nextRun == from + schedule.interval
         IN  IF schedule.endDate # NoDate /\ nextRun > schedule.endDate
             THEN Never
             ELSE nextRun

\* dueSchedules of checkAndExecutePayments at `time` (300-302).
dueSchedules(time) ==
    SelectSeq([k \in 1..Len(schedules) |-> k],
              LAMBDA k : /\ schedules[k].status = "active"
                         /\ schedules[k].nextRun <= time)

\* executeScheduledPayment up to its await (218-240): uplink.pay() is
\* called by run t of the timer callback for schedule k.
ScheduledCall(t, k, time) ==
    [caller |-> t, idempotencyKey |-> <<schedules[k].orderId, time>>,
     state |-> "pending", scheduleId |-> k,
     runNumber |-> schedules[k].totalRuns + 1, due |-> schedules[k].nextRun]

\* A timer tick: checkAndExecutePayments runs up to its first await
\* (299-312, 331-333).
Tick ==
    /\ now < MaxTicks * checkInterval
    /\ now' = now + checkInterval
    /\ LET t == Len(ticks) + 1
           due == dueSchedules(now')
       IN  IF due = <<>>
           THEN /\ ticks' = Append(ticks, [due |-> due, pos |-> 0, pc |-> "done"])
                /\ UNCHANGED uplinkCalls
           ELSE /\ ticks' = Append(ticks, [due |-> due, pos |-> 1, pc |-> "awaitPay"])
                /\ uplinkCalls' = Append(uplinkCalls, ScheduledCall(t, due[1], now'))
    /\ UNCHANGED <<client, payments, paymentsByOrder, requests, schedules,
                   batchPayments, batch>>

\* The rest of the for-of loop of run t after schedule `updated` is
\* written back: the next due schedule is executed, whatever its status is
\* by now (310-316).
NextDue(t, c, state, updated) ==
    LET k == ticks[t].due[ticks[t].pos]
        settledCalls == Settle(c, state)
    IN  /\ schedules' = [schedules EXCEPT ![k] = updated]
        /\ IF ticks[t].pos < Len(ticks[t].due)
           THEN /\ ticks' = [ticks EXCEPT ![t].pos = @ + 1]
                /\ uplinkCalls' = Append(settledCalls,
                      [ScheduledCall(t, ticks[t].due[ticks[t].pos + 1], now)
                          EXCEPT !.runNumber =
                             schedules'[ticks[t].due[ticks[t].pos + 1]].totalRuns + 1,
                                 !.due =
                             schedules'[ticks[t].due[ticks[t].pos + 1]].nextRun])
           ELSE /\ ticks' = [ticks EXCEPT ![t].pc = "done"]
                /\ uplinkCalls' = settledCalls

\* uplink.pay() resolved (242-268).
ScheduledPaymentSucceeded ==
    \E t \in 1..Len(ticks) :
        /\ ticks[t].pc = "awaitPay"
        /\ LET k == ticks[t].due[ticks[t].pos]
               ran == [schedules[k] EXCEPT !.totalRuns = @ + 1,
                                           !.successfulRuns = @ + 1,
                                           !.lastRun = now]
               nextRun == calculateNextRun(ran)
               updated ==
                   IF ran.scheduleType = "recurring"
                   THEN [ran EXCEPT !.nextRun = nextRun,
                                    !.status = IF nextRun = Never
                                               THEN "completed" ELSE @]
                   ELSE [ran EXCEPT !.status = "completed"]
           IN  NextDue(t, PendingCall(t), "resolved", updated)
        /\ UNCHANGED <<client, payments, paymentsByOrder, requests, now,
                       batchPayments, batch>>

\* uplink.pay() rejected (270-293).
ScheduledPaymentFailed ==
    \E t \in 1..Len(ticks) :
        /\ ticks[t].pc = "awaitPay"
        /\ LET k == ticks[t].due[ticks[t].pos]
               ran == [schedules[k] EXCEPT !.totalRuns = @ + 1,
                                           !.failedRuns = @ + 1,
                                           !.lastRun = now]
               updated ==
                   IF ran.failedRuns < schedulerMaxRetries
                   THEN [ran EXCEPT !.nextRun = now + schedulerRetryDelay]
                   ELSE [ran EXCEPT !.status = "paused"]
           IN  NextDue(t, PendingCall(t), "rejected", updated)
        /\ UNCHANGED <<client, payments, paymentsByOrder, requests, now,
                       batchPayments, batch>>

SchedulerInit ==
    /\ ClientIdle
    /\ payments = <<>>
    /\ paymentsByOrder = <<>>
    /\ requests = <<>>
    /\ schedules = MainSchedules
    /\ ticks = <<>>
    /\ now = 0
    /\ batchPayments = <<>>
    /\ batch = NoBatch
    /\ uplinkCalls = <<>>

SchedulerNext ==
    \/ Tick
    \/ ScheduledPaymentSucceeded
    \/ ScheduledPaymentFailed

SchedulerSpec == SchedulerInit /\ [][SchedulerNext]_vars

\* The uplink.pay() calls made for schedule k.
CallsOf(k) == { c \in 1..Len(uplinkCalls) : uplinkCalls[c].scheduleId = k }

\* C37: a schedule is never executed concurrently with itself: it has at
\* most one payment in flight, a one-time schedule has at most one
\* successful payment, and a recurring schedule has at most one payment
\* per due time.
C37_NoOverlap ==
    \A k \in 1..Len(schedules) :
        /\ Cardinality({ c \in CallsOf(k) : uplinkCalls[c].state = "pending" }) <= 1
        /\ schedules[k].scheduleType = "once"
              => Cardinality({ c \in CallsOf(k) :
                                 uplinkCalls[c].state = "resolved" }) <= 1
        /\ schedules[k].scheduleType = "recurring"
              => \A c, d \in CallsOf(k) :
                    c # d => uplinkCalls[c].due # uplinkCalls[d].due

----------------------------------------------------------------------------
\* The batch processor: processBatch works through the Base payments and
\* then the Solana payments in chunks of batchSize, the payments of a chunk
\* in parallel, and then goes once through the payments that are not
\* settled.

batchSize == 5
batchMaxRetries == 3

\* Largest batch handed to processBatch.
MaxBatch == 6

\* The recipients of a batch: a Base and a Solana address.
BatchRecipients ==
    {Address("0xRecipient", TRUE, 42, FALSE, FALSE),
     Address("SolRecipient", FALSE, 44, TRUE, FALSE)}

\* The batches: payments.map(p => ({...p, status: 'pending', attempts: 0}))
\* (1748-1752).
Batches ==
    UNION { [1..n -> [recipient : BatchRecipients, status : {"pending"},
                      attempts : {0}, txHash : {<<>>}]] : n \in 1..MaxBatch }

\* basePayments / solanaPayments (1755-1756), as indices of batchPayments.
PaymentsOn(network) ==
    SelectSeq([p \in 1..Len(batchPayments) |-> p],
              LAMBDA p : detectNetwork(batchPayments[p].recipient) = network)

\* The chunks of processBatchByNetwork (1827-1832).
RECURSIVE ChunksOf(_)
ChunksOf(list) ==
    IF list = <<>> THEN <<>>
    ELSE IF Len(list) <= batchSize THEN <<list>>
    ELSE <<SubSeq(list, 1, batchSize)>>
            \o ChunksOf(SubSeq(list, batchSize + 1, Len(list)))

\* The chunks in the order processBatch takes them: Base, then Solana
\* (1762-1772).
AllChunks == ChunksOf(PaymentsOn("base")) \o ChunksOf(PaymentsOn("solana"))

\* No uplink.pay() of the batch is pending.
NonePending == \A c \in 1..Len(uplinkCalls) : uplinkCalls[c].state # "pending"

\* processSinglePayment up to its await, for every payment of `list`
\* (1704-1713).
Processing(list) ==
    [p \in 1..Len(batchPayments) |->
        IF \E n \in 1..Len(list) : list[n] = p
        THEN [batchPayments[p] EXCEPT !.status = "processing", !.attempts = @ + 1]
        ELSE batchPayments[p]]

\* The uplink.pay() calls of `list`.
CallsFor(list) == [n \in 1..Len(list) |-> PayCall(list[n], <<"id", list[n]>>)]

\* The status processSinglePayment gives a payment whose attempt failed
\* (1724-1731).
StatusAfterFailure(attempts) ==
    IF attempts < batchMaxRetries THEN "pending" ELSE "failed"

\* Promise.all over the next chunk (1834-1846).
ProcessChunk ==
    /\ batch.phase = "chunks"
    /\ NonePending
    /\ batch.chunk < Len(AllChunks)
    /\ batch' = [batch EXCEPT !.chunk = @ + 1]
    /\ batchPayments' = Processing(AllChunks[batch.chunk + 1])
    /\ uplinkCalls' = uplinkCalls \o CallsFor(AllChunks[batch.chunk + 1])
    /\ UNCHANGED <<client, payments, paymentsByOrder, requests, schedules,
                   ticks, now>>

\* uplink.pay() resolved (1715-1719).
BatchPaymentCompleted ==
    \E c \in 1..Len(uplinkCalls) :
        /\ batch.phase \in {"chunks", "retry"}
        /\ uplinkCalls[c].state = "pending"
        /\ batchPayments' = [batchPayments EXCEPT
               ![uplinkCalls[c].caller].status = "completed",
               ![uplinkCalls[c].caller].txHash = <<"tx", c>>]
        /\ uplinkCalls' = Settle(c, "resolved")
        /\ UNCHANGED <<client, payments, paymentsByOrder, requests, schedules,
                       ticks, now, batch>>

\* uplink.pay() rejected (1720-1732).
BatchPaymentFailed ==
    \E c \in 1..Len(uplinkCalls) :
        /\ batch.phase \in {"chunks", "retry"}
        /\ uplinkCalls[c].state = "pending"
        /\ batchPayments' = [batchPayments EXCEPT
               ![uplinkCalls[c].caller].status =
                   StatusAfterFailure(batchPayments[uplinkCalls[c].caller].attempts)]
        /\ uplinkCalls' = Settle(c, "rejected")
        /\ UNCHANGED <<client, payments, paymentsByOrder, requests, schedules,
                       ticks, now, batch>>

\* The chunks are done: failedPayments is taken (1774-1779).
RetryFailed ==
    /\ batch.phase = "chunks"
    /\ NonePending
    /\ batch.chunk = Len(AllChunks)
    /\ batch' = [batch EXCEPT
           !.phase = "retry",
           !.failedPayments =
               SelectSeq([p \in 1..Len(batchPayments) |-> p],
                         LAMBDA p : batchPayments[p].status
                                       \in {"pending", "processing"})]
    /\ UNCHANGED <<client, payments, paymentsByOrder, requests, schedules,
                   ticks, now, batchPayments, uplinkCalls>>

\* One turn of the loop over failedPayments (1781-1787).
RetryPayment ==
    /\ batch.phase = "retry"
    /\ NonePending
    /\ batch.retry < Len(batch.failedPayments)
    /\ batch' = [batch EXCEPT !.retry = @ + 1]
    /\ LET payment == batch.failedPayments[batch.retry + 1]
       IN  IF batchPayments[payment].attempts < batchMaxRetries
           THEN /\ batchPayments' = Processing(<<payment>>)
                /\ uplinkCalls' = uplinkCalls \o CallsFor(<<payment>>)
           ELSE UNCHANGED <<batchPayments, uplinkCalls>>
    /\ UNCHANGED <<client, payments, paymentsByOrder, requests, schedules,
                   ticks, now>>

\* The number of payments in `status`.
Count(status) ==
    Cardinality({ p \in 1..Len(batchPayments) : batchPayments[p].status = status })

\* processBatch returns its BatchResult (1790-1816).
BatchReturns ==
    /\ batch.phase = "retry"
    /\ NonePending
    /\ batch.retry = Len(batch.failedPayments)
    /\ batch' = [batch EXCEPT
           !.phase = "returned",
           !.result = [total |-> Len(batchPayments),
                       successful |-> Count("completed"),
                       failed |-> Count("failed")]]
    /\ UNCHANGED <<client, payments, paymentsByOrder, requests, schedules,
                   ticks, now, batchPayments, uplinkCalls>>

BatchInit ==
    /\ ClientIdle
    /\ payments = <<>>
    /\ paymentsByOrder = <<>>
    /\ requests = <<>>
    /\ schedules = <<>>
    /\ ticks = <<>>
    /\ now = 0
    /\ batchPayments \in Batches
    /\ batch = [NoBatch EXCEPT !.phase = "chunks"]
    /\ uplinkCalls = <<>>

BatchNext ==
    \/ ProcessChunk
    \/ BatchPaymentCompleted
    \/ BatchPaymentFailed
    \/ RetryFailed
    \/ RetryPayment
    \/ BatchReturns

BatchSpec == BatchInit /\ [][BatchNext]_vars

\* The uplink.pay() calls made for payment p.
AttemptsOf(p) == { c \in 1..Len(uplinkCalls) : uplinkCalls[c].caller = p }

\* C38: when processBatch has returned, every payment is 'completed' or
\* 'failed', a payment whose every attempt failed was attempted maxRetries
\* times, and successful + failed is the batch total.
C38_BatchSettles ==
    batch.phase = "returned"
        => /\ \A p \in 1..Len(batchPayments) :
                /\ batchPayments[p].status \in {"completed", "failed"}
                /\ (\A c \in AttemptsOf(p) : uplinkCalls[c].state = "rejected")
                      => Cardinality(AttemptsOf(p)) = batchMaxRetries
           /\ batch.result.successful + batch.result.failed = batch.result.total

====
